---- MODULE Spec2Model ----
(***************************************************************************)
(* The order -> salary ledger -> client balance cascade of the business    *)
(* backend: the Express handlers of routes/orders.js and routes/clients.js *)
(* over the Mongo collections Order, Salary, User, Client, EditingProject. *)
(* Every store call (save, findById, findByIdAndUpdate, deleteMany, find)  *)
(* is one atomic step of the request that issues it; a request is a        *)
(* record holding the handler's position and its local variables.          *)
(***************************************************************************)
EXTENDS Integers, Sequences, FiniteSets

\* ------------------------------------------------------------- bounds
MaxOrders == 2
MaxAssign == 1
MaxProjects == 1
MaxConc == 2
MaxFaults == 1
MaxClock == 2

\* ------------------------------------------------------ input domains
Users == {1, 2}
Clients == {1, 2}
\* the assignments a request may carry: paid ones, one with payment 0 and one
\* with a negative payment
WorkerAssignments == {[who |-> 1, payment |-> 2], [who |-> 1, payment |-> 0],
                      [who |-> 2, payment |-> -1]}
TransporterAssignments == {[who |-> 1, payment |-> 2], [who |-> 2, payment |-> 1]}
TotalAmounts == {5}
ReceivedAtCreate == {0, 2}
PaymentInputs == {2}
ClientPaymentInputs == {0, 5}
WorkPaymentInputs == {2, 5}
ProjectTotals == {3}
RacePayments == {5}
\* amounts below 0, in range and above the total of an order
RangeInputs == {-1, 2, 7}
CommissionPercentages == {15}
\* the values a later save of a project changes the two fields to
ProjectUpdateTotals == {0, 10}
ProjectUpdatePercentages == {0, 50}
Statuses == {"pending", "in_progress", "completed"}
Slots == 1..MaxConc

VARIABLES orders, salaries, users, clients, projects, reqs, now, nextOrderId, faults,
          issued, db

vars == <<orders, salaries, users, clients, projects, reqs, now, nextOrderId, faults, issued,
         db>>
store == <<orders, salaries, users, clients, projects>>

\* ------------------------------------------------------------ helpers
Put(f, k, v) == [x \in DOMAIN f \cup {k} |-> IF x = k THEN v ELSE f[x]]
Drop(f, k) == [x \in DOMAIN f \ {k} |-> f[x]]
Max(a, b) == IF a >= b THEN a ELSE b

RECURSIVE SumSeq(_)
SumSeq(s) == IF s = <<>> THEN 0 ELSE Head(s) + SumSeq(Tail(s))

RECURSIVE SumOver(_, _)
SumOver(f, S) ==
  IF S = {} THEN 0
  ELSE LET x == CHOOSE y \in S : TRUE IN f[x] + SumOver(f, S \ {x})

\* document.save() sends the paths whose value differs from the loaded one
SavePath(stored, loaded, value) == IF value = loaded THEN stored ELSE value

Idle == [op |-> "idle", pc |-> "idle"]
Busy(i) == reqs[i].op # "idle"
Running(i) == Busy(i) /\ reqs[i].pc # "done"
\* the ledger and balance state a request saw when it arrived: history,
\* kept when requests run one at a time (limit 1)
Snap(limit) ==
  IF limit = 1
  THEN [orders |-> orders, salaries |-> salaries, users |-> users,
        clients |-> clients, projects |-> projects]
  ELSE <<>>

\* A request arrives in the lowest free slot while fewer than `limit`
\* requests are in flight (limit 1: requests run one at a time).
Free(i, limit) ==
  /\ ~Busy(i)
  /\ \A j \in Slots : j < i => Busy(j)
  /\ Cardinality({j \in Slots : Busy(j)}) < limit

\* faulty variant: the routers are mounted without checkDbConnection
Admit_ungated(i, limit) == Free(i, limit)

\* app.use('/api/...', checkDbConnection, router): next() is called, and the
\* route's handler runs, when isDbConnected holds
Admit(i, limit) == Free(i, limit) /\ db.isDbConnected

\* faulty variant: a rejected call unwinds the whole request
Caught_unwinds(r) == [r EXCEPT !.pc = "done", !.res = 500, !.failedAt = Append(@, r.pc)]

\* where the handler resumes when the awaited call at r.pc rejects: the
\* inner try/catch blocks of POST / and PUT /:id/status log and continue,
\* every other catch answers 500
Caught(r) ==
  IF r.op = "create" /\ r.pc \in {"salarySave", "userInc"}
    THEN [r EXCEPT !.pc = "clientInc", !.failedAt = Append(@, r.pc)]
  ELSE IF r.op = "create" /\ r.pc = "clientInc"
    THEN [r EXCEPT !.pc = "done", !.res = 201, !.failedAt = Append(@, r.pc)]
  ELSE IF r.op = "status"
    THEN [r EXCEPT !.pc = "done", !.res = 200, !.failedAt = Append(@, r.pc)]
  ELSE [r EXCEPT !.pc = "done", !.res = 500, !.failedAt = Append(@, r.pc)]

\* ------------------------------------------------- assignment lists
ListsOver(A) == UNION {[1..n -> A] : n \in 0..MaxAssign}

\* `if (workerAssignment.worker && workerAssignment.payment)`: a truthiness
\* test, so 0 (and a missing payment) is skipped and any other number passes.
HasPayment(a) == a.payment # 0

ListOf(order, kind) == IF kind = "w" THEN order.workers ELSE order.transporters

FirstFrom(list, i) ==
  LET C == {j \in i..Len(list) : HasPayment(list[j])}
  IN IF C = {} THEN Len(list) + 1 ELSE CHOOSE j \in C : \A k \in C : j <= k

\* faulty variant: the transporters loop is missing
NextPos_workersOnly(order, kind, i) ==
  LET w == FirstFrom(order.workers, i)
  IN IF kind = "w" /\ w <= Len(order.workers) THEN [kind |-> "w", idx |-> w]
     ELSE [kind |-> "end", idx |-> 0]

\* The position of the next assignment the two for-loops act on, workers
\* first and then transporters, starting at (kind, i); kind "end" when none.
NextPos(order, kind, i) ==
  LET w == FirstFrom(order.workers, i)
      t == FirstFrom(order.transporters, IF kind = "w" THEN 1 ELSE i)
  IN IF kind = "w" /\ w <= Len(order.workers) THEN [kind |-> "w", idx |-> w]
     ELSE IF t <= Len(order.transporters) THEN [kind |-> "t", idx |-> t]
     ELSE [kind |-> "end", idx |-> 0]

SalaryTypeOf(kind) == IF kind = "w" THEN "order_work" ELSE "transport_work"

\* new Salary({...}) for the assignment at (kind, idx) of order `id`
NewSalary(id, order, kind, idx) ==
  [order |-> id, kind |-> kind, idx |-> idx,
   employee |-> ListOf(order, kind)[idx].who,
   amount |-> ListOf(order, kind)[idx].payment,
   salaryType |-> SalaryTypeOf(kind),
   isPaid |-> FALSE, paidDate |-> 0]

\* faulty variant: paying a salary raises paidSalary and leaves remainingSalary
IncUser_keepsRemaining(us, u, dTotal, dPaid, dRemaining, notes) ==
  IF u \notin DOMAIN us THEN us
  ELSE [us EXCEPT ![u] = [totalEarnings |-> @.totalEarnings + dTotal,
                          paidSalary |-> @.paidSalary + dPaid,
                          remainingSalary |-> @.remainingSalary +
                                              (IF dPaid # 0 THEN 0 ELSE dRemaining),
                          notifications |-> @.notifications \o notes]]

\* User.findByIdAndUpdate(u, {$inc: {...}, $push: {notifications}}): one
\* atomic update of one document; a missing user updates nothing.
IncUser(us, u, dTotal, dPaid, dRemaining, notes) ==
  IF u \notin DOMAIN us THEN us
  ELSE [us EXCEPT ![u] = [totalEarnings |-> @.totalEarnings + dTotal,
                          paidSalary |-> @.paidSalary + dPaid,
                          remainingSalary |-> @.remainingSalary + dRemaining,
                          notifications |-> @.notifications \o notes]]

\* faulty variant: the update sets the three fields to the deltas ($set)
IncClient_sets(cs, c, dOrders, dDue, dPending) ==
  IF c \notin DOMAIN cs THEN cs
  ELSE [cs EXCEPT ![c].lifetimeOrders = dOrders,
                  ![c].totalPaymentsDue = dDue,
                  ![c].pendingPayments = dPending]

\* Client.findByIdAndUpdate(c, {$inc: {lifetimeOrders, totalPaymentsDue,
\* pendingPayments}}): receivedPayments and paymentStatus are not written.
IncClient(cs, c, dOrders, dDue, dPending) ==
  IF c \notin DOMAIN cs THEN cs
  ELSE [cs EXCEPT ![c].lifetimeOrders = @ + dOrders,
                  ![c].totalPaymentsDue = @ + dDue,
                  ![c].pendingPayments = @ + dPending]

\* ------------------------------------- the deltas the requests issued
\* history: per user and per client, the sum of the $inc deltas sent to the
\* store so far
NoneIssued ==
  [users |-> [u \in Users |-> [totalEarnings |-> 0, paidSalary |-> 0, remainingSalary |-> 0]],
   clients |-> [c \in Clients |->
                  [lifetimeOrders |-> 0, totalPaymentsDue |-> 0, pendingPayments |-> 0]]]

IssueUser(u, dTotal, dPaid, dRemaining) ==
  IF u \notin DOMAIN issued.users THEN issued
  ELSE [issued EXCEPT !.users[u] = [totalEarnings |-> @.totalEarnings + dTotal,
                                    paidSalary |-> @.paidSalary + dPaid,
                                    remainingSalary |-> @.remainingSalary + dRemaining]]

IssueClient(c, dOrders, dDue, dPending) ==
  IF c \notin DOMAIN issued.clients THEN issued
  ELSE [issued EXCEPT !.clients[c] = [lifetimeOrders |-> @.lifetimeOrders + dOrders,
                                      totalPaymentsDue |-> @.totalPaymentsDue + dDue,
                                      pendingPayments |-> @.pendingPayments + dPending]]

\* ------------------------------------------------------------- Init
NewClient == [lifetimeOrders |-> 0, totalPaymentsDue |-> 0, receivedPayments |-> 0,
              pendingPayments |-> 0, paymentStatus |-> "pending"]
NewUser == [totalEarnings |-> 0, paidSalary |-> 0, remainingSalary |-> 0,
            notifications |-> <<>>]

\* the server serving requests on an empty store once the first
\* mongoose.connect has resolved: the flag is set and the three event
\* handlers are registered
Init ==
  /\ orders = <<>>
  /\ salaries = {}
  /\ users = [u \in Users |-> NewUser]
  /\ clients = [c \in Clients |-> NewClient]
  /\ projects = <<>>
  /\ reqs = [i \in Slots |-> Idle]
  /\ now = 1
  /\ nextOrderId = 1
  /\ faults = 0
  /\ issued = NoneIssued
  /\ db = [isDbConnected |-> TRUE, connecting |-> FALSE, retry |-> FALSE,
           listening |-> TRUE, link |-> "up", last |-> "connected"]

\* ------------------------------------------- POST /orders (create order)
NewOrder(in) ==
  [client |-> in.clientId,
   workers |-> in.workers, transporters |-> in.transporters,
   totalAmount |-> in.totalAmount,
   receivedPayment |-> in.receivedPayment,
   remainingPayment |-> in.totalAmount - in.receivedPayment,
   status |-> "pending", completionDate |-> 0,
   shopName |-> in.shopName, orderDate |-> now]

OrderInputs(clientIds, totals, received, workerLists, transporterLists) ==
  [clientId : clientIds, totalAmount : totals, receivedPayment : received,
   workers : workerLists, transporters : transporterLists, shopName : {"A"}]

\* the requests of the ledger runs: every assignment list, one client
LedgerOrders ==
  OrderInputs({1}, {5}, {0}, ListsOver(WorkerAssignments), ListsOver(TransporterAssignments))

\* the requests of the balance runs: no assignment, every client
BalanceOrders == OrderInputs(Clients, TotalAmounts, ReceivedAtCreate, {<<>>}, {<<>>})

\* the requests of the create/delete runs: every client, one paid worker
PlainOrders ==
  OrderInputs(Clients, TotalAmounts, ReceivedAtCreate,
              ListsOver({[who |-> 1, payment |-> 2]}), {<<>>})

\* the requests of the interleaved runs: one or two paid assignments
ConcOrders ==
  OrderInputs({1}, {5}, {0}, {<<[who |-> 1, payment |-> 2]>>},
              ListsOver({[who |-> 2, payment |-> 1]}))

\* the requests of the runs with store failures: paid assignments only
PaidOrders ==
  OrderInputs({1}, {5}, {0}, ListsOver({[who |-> 1, payment |-> 2]}),
              ListsOver({[who |-> 1, payment |-> 2], [who |-> 2, payment |-> 1]}))

\* the requests of the interleaved balance runs: one client, no assignment
RaceOrders == OrderInputs({1}, {5}, {0}, {<<>>}, {<<>>})

\* the requests naming an assignee that is no user
AbsentOrders == OrderInputs({1}, {5}, {0}, ListsOver({[who |-> 3, payment |-> 2]}), {<<>>})

\* the request arrives; const order = new Order({...}); await order.save()
PostOrder(i, limit, inputs) ==
  /\ Admit(i, limit)
  /\ nextOrderId <= MaxOrders
  /\ \E in \in inputs :
       LET order == NewOrder(in)
           p == NextPos(order, "w", 1)
       IN /\ orders' = Put(orders, nextOrderId, order)
          /\ reqs' = [reqs EXCEPT ![i] =
                  [op |-> "create", id |-> nextOrderId, in |-> in, order |-> order,
                   pc |-> IF p.kind = "end" THEN "clientInc" ELSE "salarySave",
                   kind |-> p.kind, idx |-> p.idx,
                   res |-> 0, failedAt |-> <<>>, snap |-> Snap(limit)]]
  /\ nextOrderId' = nextOrderId + 1
  /\ UNCHANGED <<db, salaries, users, clients, projects, now, faults, issued>>

\* createSalaryEntriesFromOrder: await salaryEntry.save()
createSalaryEntriesFromOrder_save(i) ==
  /\ reqs[i].op = "create" /\ reqs[i].pc = "salarySave"
  /\ salaries' = salaries \cup {NewSalary(reqs[i].id, reqs[i].order, reqs[i].kind, reqs[i].idx)}
  /\ reqs' = [reqs EXCEPT ![i].pc = "userInc"]
  /\ UNCHANGED <<db, orders, users, clients, projects, now, nextOrderId, faults, issued>>

\* createSalaryEntriesFromOrder: await User.findByIdAndUpdate(..., {$inc})
createSalaryEntriesFromOrder_inc(i) ==
  /\ reqs[i].op = "create" /\ reqs[i].pc = "userInc"
  /\ LET a == ListOf(reqs[i].order, reqs[i].kind)[reqs[i].idx]
         p == NextPos(reqs[i].order, reqs[i].kind, reqs[i].idx + 1)
     IN /\ users' = IncUser(users, a.who, a.payment, 0, a.payment, <<>>)
        /\ reqs' = [reqs EXCEPT ![i].pc = IF p.kind = "end" THEN "clientInc" ELSE "salarySave",
                                ![i].kind = p.kind, ![i].idx = p.idx]
  /\ issued' = LET a == ListOf(reqs[i].order, reqs[i].kind)[reqs[i].idx]
               IN IssueUser(a.who, a.payment, 0, a.payment)
  /\ UNCHANGED <<db, orders, salaries, clients, projects, now, nextOrderId, faults>>

\* await Client.findByIdAndUpdate(clientId, {$inc}); res.status(201)
PostOrder_clientInc(i) ==
  /\ reqs[i].op = "create" /\ reqs[i].pc = "clientInc"
  /\ clients' = IncClient(clients, reqs[i].in.clientId, 1, reqs[i].in.totalAmount,
                          reqs[i].in.totalAmount - reqs[i].in.receivedPayment)
  /\ reqs' = [reqs EXCEPT ![i].pc = "done", ![i].res = 201]
  /\ issued' = IssueClient(reqs[i].in.clientId, 1, reqs[i].in.totalAmount,
                           reqs[i].in.totalAmount - reqs[i].in.receivedPayment)
  /\ UNCHANGED <<db, orders, salaries, users, projects, now, nextOrderId, faults>>

\* --------------------------------- PUT /orders/:id/status (update status)
OrderIds == 1..MaxOrders

\* Salary.find({relatedOrder: orderId, isPaid: false}), in insertion order
\* (createSalaryEntriesFromOrder inserts workers first, then transporters)
RECURSIVE SortSalaries(_)
SortSalaries(S) ==
  IF S = {} THEN <<>>
  ELSE LET first == CHOOSE s \in S : \A t \in S :
                      \/ s.kind = "w" /\ t.kind = "t"
                      \/ s.kind = t.kind /\ s.idx <= t.idx
       IN <<first>> \o SortSalaries(S \ {first})

UnpaidSalariesOf(sals, id) == {s \in sals : s.order = id /\ ~s.isPaid}

\* faulty variant: the isPaid: false filter is missing
FindUnpaid_anyEntry(sals, id) == SortSalaries({s \in sals : s.order = id})

FindUnpaid(sals, id) == SortSalaries(UnpaidSalariesOf(sals, id))

SameSalary(s, t) == s.order = t.order /\ s.kind = t.kind /\ s.idx = t.idx

\* salary.isPaid = true; salary.paidDate = paidDate; salary.save(): writes the
\* two modified paths of the stored document with this _id
MarkPaid(sals, salary, paidDate) ==
  {IF SameSalary(s, salary) THEN [s EXCEPT !.isPaid = TRUE, !.paidDate = paidDate] ELSE s
     : s \in sals}

\* the request arrives;
\* Order.findByIdAndUpdate(id, {status, completionDate?}, {new: true})
PutStatus(i, limit, statuses) ==
  /\ Admit(i, limit)
  /\ \E id \in OrderIds, status \in statuses :
       LET r == [op |-> "status", pc |-> "done", id |-> id, status |-> status,
                 found |-> <<>>, idx |-> 0, paidDate |-> 0,
                 res |-> 404, failedAt |-> <<>>, snap |-> Snap(limit)]
       IN IF id \notin DOMAIN orders
          THEN /\ reqs' = [reqs EXCEPT ![i] = r]
               /\ UNCHANGED orders
          ELSE /\ orders' = [orders EXCEPT ![id].status = status,
                                           ![id].completionDate =
                                              IF status = "completed" THEN now ELSE @]
               /\ reqs' = [reqs EXCEPT ![i] =
                             IF status = "completed"
                             THEN [r EXCEPT !.pc = "find", !.res = 0]
                             ELSE [r EXCEPT !.res = 200]]
  /\ UNCHANGED <<db, salaries, users, clients, projects, now, nextOrderId, faults, issued>>

\* markOrderSalariesAsPaid: Salary.find(...); const paidDate = new Date()
markOrderSalariesAsPaid_find(i) ==
  /\ reqs[i].op = "status" /\ reqs[i].pc = "find"
  /\ LET found == FindUnpaid(salaries, reqs[i].id)
     IN reqs' = IF found = <<>>
                THEN [reqs EXCEPT ![i].pc = "done", ![i].res = 200]
                ELSE [reqs EXCEPT ![i].pc = "salarySave", ![i].found = found,
                                  ![i].idx = 1, ![i].paidDate = now]
  /\ UNCHANGED <<db, store, now, nextOrderId, faults, issued>>

\* markOrderSalariesAsPaid: salary.isPaid = true; await salary.save().
\* When the document was deleted since it was loaded, save() matches
\* nothing: depending on the Mongoose version it resolves or it rejects
\* with DocumentNotFoundError.
markOrderSalariesAsPaid_save(i) ==
  /\ reqs[i].op = "status" /\ reqs[i].pc = "salarySave"
  /\ LET salary == reqs[i].found[reqs[i].idx]
     IN IF \E s \in salaries : SameSalary(s, salary)
        THEN /\ salaries' = MarkPaid(salaries, salary, reqs[i].paidDate)
             /\ reqs' = [reqs EXCEPT ![i].pc = "userInc"]
        ELSE /\ UNCHANGED salaries
             /\ \/ reqs' = [reqs EXCEPT ![i].pc = "userInc"]
                \/ reqs' = [reqs EXCEPT ![i] = Caught(reqs[i])]
  /\ UNCHANGED <<db, orders, users, clients, projects, now, nextOrderId, faults, issued>>

\* faulty variant: the loop ends after the first entry
markOrderSalariesAsPaid_inc_first(i) ==
  /\ reqs[i].op = "status" /\ reqs[i].pc = "userInc"
  /\ LET salary == reqs[i].found[reqs[i].idx]
     IN users' = IncUser(users, salary.employee, 0, salary.amount, -salary.amount,
                         <<salary.amount>>)
  /\ reqs' = [reqs EXCEPT ![i].pc = "done", ![i].res = 200]
  /\ issued' = LET salary == reqs[i].found[reqs[i].idx]
               IN IssueUser(salary.employee, 0, salary.amount, -salary.amount)
  /\ UNCHANGED <<db, orders, salaries, clients, projects, now, nextOrderId, faults>>

\* markOrderSalariesAsPaid: User.findByIdAndUpdate(employee, {$inc, $push})
markOrderSalariesAsPaid_inc(i) ==
  /\ reqs[i].op = "status" /\ reqs[i].pc = "userInc"
  /\ LET salary == reqs[i].found[reqs[i].idx]
     IN users' = IncUser(users, salary.employee, 0, salary.amount, -salary.amount,
                         <<salary.amount>>)
  /\ reqs' = IF reqs[i].idx < Len(reqs[i].found)
             THEN [reqs EXCEPT ![i].pc = "salarySave", ![i].idx = @ + 1]
             ELSE [reqs EXCEPT ![i].pc = "done", ![i].res = 200]
  /\ issued' = LET salary == reqs[i].found[reqs[i].idx]
               IN IssueUser(salary.employee, 0, salary.amount, -salary.amount)
  /\ UNCHANGED <<db, orders, salaries, clients, projects, now, nextOrderId, faults>>

\* ------------------------------- PUT /orders/:id/payment (update payment)
\* the request arrives; const order = await Order.findById(req.params.id)
PutPayment(i, limit, amounts) ==
  /\ Admit(i, limit)
  /\ \E id \in OrderIds, receivedPayment \in amounts :
       LET r == [op |-> "payment", pc |-> "done", id |-> id,
                 receivedPayment |-> receivedPayment, order |-> <<>>,
                 res |-> 404, failedAt |-> <<>>, snap |-> Snap(limit)]
       IN reqs' = [reqs EXCEPT ![i] =
                     IF id \notin DOMAIN orders THEN r
                     ELSE [r EXCEPT !.pc = "save", !.res = 0, !.order = orders[id]]]
  /\ UNCHANGED <<db, store, now, nextOrderId, faults, issued>>

\* faulty variant: the save also moves the client's pendingPayments
PutPayment_save_cascades(i) ==
  /\ reqs[i].op = "payment" /\ reqs[i].pc = "save"
  /\ reqs[i].id \in DOMAIN orders
  /\ orders' = [orders EXCEPT
                  ![reqs[i].id].receivedPayment = reqs[i].receivedPayment,
                  ![reqs[i].id].remainingPayment =
                     reqs[i].order.totalAmount - reqs[i].receivedPayment]
  /\ clients' = IncClient(clients, reqs[i].order.client, 0, 0,
                          reqs[i].order.receivedPayment - reqs[i].receivedPayment)
  /\ reqs' = [reqs EXCEPT ![i].pc = "done", ![i].res = 200]
  /\ UNCHANGED <<db, salaries, users, projects, now, nextOrderId, faults, issued>>

\* order.receivedPayment = ...; order.remainingPayment = ...; await
\* order.save(): the two paths are written to the stored document; when it
\* was deleted meanwhile save() resolves or rejects (as above)
PutPayment_save(i) ==
  /\ reqs[i].op = "payment" /\ reqs[i].pc = "save"
  /\ IF reqs[i].id \in DOMAIN orders
     THEN /\ orders' = [orders EXCEPT
                  ![reqs[i].id].receivedPayment =
                     SavePath(@, reqs[i].order.receivedPayment, reqs[i].receivedPayment),
                  ![reqs[i].id].remainingPayment =
                     SavePath(@, reqs[i].order.remainingPayment,
                              reqs[i].order.totalAmount - reqs[i].receivedPayment)]
          /\ reqs' = [reqs EXCEPT ![i].pc = "done", ![i].res = 200]
     ELSE /\ UNCHANGED orders
          /\ \/ reqs' = [reqs EXCEPT ![i].pc = "done", ![i].res = 200]
             \/ reqs' = [reqs EXCEPT ![i] = Caught(reqs[i])]
  /\ UNCHANGED <<db, salaries, users, clients, projects, now, nextOrderId, faults, issued>>

\* ------------------------------------- DELETE /orders/:id (delete order)
\* the request arrives; const order = await Order.findById(orderId)
DeleteOrder(i, limit) ==
  /\ Admit(i, limit)
  /\ \E id \in OrderIds :
       LET r == [op |-> "delete", pc |-> "done", id |-> id, order |-> <<>>,
                 kind |-> "w", idx |-> 0,
                 res |-> 404, failedAt |-> <<>>, snap |-> Snap(limit)]
       IN reqs' = [reqs EXCEPT ![i] =
                     IF id \notin DOMAIN orders THEN r
                     ELSE [r EXCEPT !.pc = "deleteSalaries", !.res = 0,
                                    !.order = orders[id]]]
  /\ UNCHANGED <<db, store, now, nextOrderId, faults, issued>>

\* await Salary.deleteMany({relatedOrder: orderId})
DeleteOrder_deleteSalaries(i) ==
  /\ reqs[i].op = "delete" /\ reqs[i].pc = "deleteSalaries"
  /\ salaries' = {s \in salaries : s.order # reqs[i].id}
  /\ LET p == NextPos(reqs[i].order, "w", 1)
     IN reqs' = [reqs EXCEPT ![i].pc = IF p.kind = "end" THEN "clientDec" ELSE "userDec",
                             ![i].kind = p.kind, ![i].idx = p.idx]
  /\ UNCHANGED <<db, orders, users, clients, projects, now, nextOrderId, faults, issued>>

\* await User.findByIdAndUpdate(assignee, {$inc: {totalEarnings: -p, remainingSalary: -p}})
DeleteOrder_userDec(i) ==
  /\ reqs[i].op = "delete" /\ reqs[i].pc = "userDec"
  /\ LET a == ListOf(reqs[i].order, reqs[i].kind)[reqs[i].idx]
         p == NextPos(reqs[i].order, reqs[i].kind, reqs[i].idx + 1)
     IN /\ users' = IncUser(users, a.who, -a.payment, 0, -a.payment, <<>>)
        /\ reqs' = [reqs EXCEPT ![i].pc = IF p.kind = "end" THEN "clientDec" ELSE "userDec",
                                ![i].kind = p.kind, ![i].idx = p.idx]
  /\ issued' = LET a == ListOf(reqs[i].order, reqs[i].kind)[reqs[i].idx]
               IN IssueUser(a.who, -a.payment, 0, -a.payment)
  /\ UNCHANGED <<db, orders, salaries, clients, projects, now, nextOrderId, faults>>

\* faulty variant: pendingPayments is decremented by the order's total
DeleteOrder_clientDec_total(i) ==
  /\ reqs[i].op = "delete" /\ reqs[i].pc = "clientDec"
  /\ LET o == reqs[i].order
     IN clients' = IncClient(clients, o.client, -1, -o.totalAmount, -o.totalAmount)
  /\ reqs' = [reqs EXCEPT ![i].pc = "deleteOrder"]
  /\ issued' = IssueClient(reqs[i].order.client, -1, -reqs[i].order.totalAmount,
                           -reqs[i].order.totalAmount)
  /\ UNCHANGED <<db, orders, salaries, users, projects, now, nextOrderId, faults>>

\* if (order.client) await Client.findByIdAndUpdate(order.client, {$inc: {...}})
DeleteOrder_clientDec(i) ==
  /\ reqs[i].op = "delete" /\ reqs[i].pc = "clientDec"
  /\ LET o == reqs[i].order
     IN clients' = IncClient(clients, o.client, -1, -o.totalAmount,
                             -(o.totalAmount - o.receivedPayment))
  /\ reqs' = [reqs EXCEPT ![i].pc = "deleteOrder"]
  /\ issued' = IssueClient(reqs[i].order.client, -1, -reqs[i].order.totalAmount,
                           -(reqs[i].order.totalAmount - reqs[i].order.receivedPayment))
  /\ UNCHANGED <<db, orders, salaries, users, projects, now, nextOrderId, faults>>

\* await Order.findByIdAndDelete(orderId); res.json(...)
DeleteOrder_delete(i) ==
  /\ reqs[i].op = "delete" /\ reqs[i].pc = "deleteOrder"
  /\ orders' = IF reqs[i].id \in DOMAIN orders THEN Drop(orders, reqs[i].id) ELSE orders
  /\ reqs' = [reqs EXCEPT ![i].pc = "done", ![i].res = 200]
  /\ UNCHANGED <<db, salaries, users, clients, projects, now, nextOrderId, faults, issued>>

\* ------------------------------------ DELETE /clients/:id (delete client)
\* the request arrives; const client = await Client.findByIdAndDelete(id)
DeleteClient(i, limit) ==
  /\ Admit(i, limit)
  /\ \E c \in Clients :
       /\ reqs' = [reqs EXCEPT ![i] =
                     [op |-> "clientDelete", pc |-> "done", id |-> c,
                      res |-> IF c \in DOMAIN clients THEN 200 ELSE 404,
                      failedAt |-> <<>>, snap |-> Snap(limit)]]
       /\ clients' = IF c \in DOMAIN clients THEN Drop(clients, c) ELSE clients
  /\ UNCHANGED <<db, orders, salaries, users, projects, now, nextOrderId, faults, issued>>

\* ------------------- PUT /clients/:id/payment (update client payment)
\* the status the client payment endpoint derives from the new amounts
ClientPaymentStatus(newPendingPayments, newReceivedAmount) ==
  IF newPendingPayments = 0 THEN "paid"
  ELSE IF newReceivedAmount > 0 THEN "partial"
  ELSE "pending"

\* the request arrives; const client = await Client.findById(clientId);
\* the amount is validated against the loaded totalPaymentsDue
PutClientPayment(i, limit, amounts) ==
  /\ Admit(i, limit)
  /\ \E c \in Clients, receivedAmount \in amounts :
       LET r == [op |-> "clientPayment", pc |-> "done", id |-> c,
                 receivedAmount |-> receivedAmount, client |-> <<>>,
                 res |-> 404, failedAt |-> <<>>, snap |-> Snap(limit)]
       IN reqs' = [reqs EXCEPT ![i] =
            IF c \notin DOMAIN clients THEN r
            ELSE IF receivedAmount < 0 \/ receivedAmount > clients[c].totalPaymentsDue
                 THEN [r EXCEPT !.res = 400]
                 ELSE [r EXCEPT !.pc = "save", !.res = 0, !.client = clients[c]]]
  /\ UNCHANGED <<db, store, now, nextOrderId, faults, issued>>

\* client.receivedPayments = ...; client.pendingPayments = ...;
\* client.paymentStatus = ...; await client.save()
PutClientPayment_save(i) ==
  /\ reqs[i].op = "clientPayment" /\ reqs[i].pc = "save"
  /\ LET c == reqs[i].id
         loaded == reqs[i].client
         newReceivedAmount == reqs[i].receivedAmount
         newPendingPayments == Max(0, loaded.totalPaymentsDue - newReceivedAmount)
         newStatus == ClientPaymentStatus(newPendingPayments, newReceivedAmount)
     IN clients' =
          IF c \notin DOMAIN clients THEN clients
          ELSE [clients EXCEPT
                  ![c].receivedPayments = SavePath(@, loaded.receivedPayments, newReceivedAmount),
                  ![c].pendingPayments = SavePath(@, loaded.pendingPayments, newPendingPayments),
                  ![c].paymentStatus = SavePath(@, loaded.paymentStatus, newStatus)]
  /\ reqs' = [reqs EXCEPT ![i].pc = "done", ![i].res = 200]
  /\ UNCHANGED <<db, orders, salaries, users, projects, now, nextOrderId, faults, issued>>

\* ------------------------------------------------- EditingProject.save()
ProjectIds == 1..MaxProjects

\* Math.round(n / 100) for an integer n >= 0
RoundPercent(n) == (n + 50) \div 100

\* editingProjectSchema.pre('save'): commission and remaining payment
PreSave(doc) ==
  LET c == IF doc.totalAmount # 0 /\ doc.commissionPercentage # 0
           THEN RoundPercent(doc.totalAmount * doc.commissionPercentage)
           ELSE doc.commissionAmount
      r == IF doc.totalAmount # 0
           THEN doc.totalAmount - doc.receivedPayment
           ELSE doc.remainingPayment
  IN [doc EXCEPT !.commissionAmount = c, !.remainingPayment = r]

\* a new editing project of a client is saved (receivedPayment defaults to
\* 0, status to 'pending'); editor, shopName and endDate are required inputs
SaveProjectFor(i, limit, clientIds, editors, shops) ==
  /\ Admit(i, limit)
  /\ Cardinality(DOMAIN projects) < MaxProjects
  /\ \E c \in clientIds, total \in ProjectTotals, pct \in CommissionPercentages,
        e \in editors, shop \in shops :
       LET id == CHOOSE p \in ProjectIds : p \notin DOMAIN projects
       IN projects' = Put(projects, id,
                          PreSave([client |-> c, totalAmount |-> total,
                                   receivedPayment |-> 0, remainingPayment |-> total,
                                   commissionPercentage |-> pct, commissionAmount |-> 0,
                                   editor |-> e, shopName |-> shop,
                                   status |-> "pending", startDate |-> now,
                                   endDate |-> 1]))
  /\ UNCHANGED <<db, orders, salaries, users, clients, reqs, now, nextOrderId, faults, issued>>

SaveProject(i, limit) == SaveProjectFor(i, limit, Clients, {1}, {"A"})

\* a stored editing project is loaded, its totalAmount and
\* commissionPercentage are assigned and it is saved: the pre('save') hook
\* runs on the modified document
UpdateProject(i, limit) ==
  /\ Admit(i, limit)
  /\ \E id \in DOMAIN projects, total \in ProjectUpdateTotals,
        pct \in ProjectUpdatePercentages :
       projects' = [projects EXCEPT ![id] =
                      PreSave([@ EXCEPT !.totalAmount = total,
                                        !.commissionPercentage = pct])]
  /\ UNCHANGED <<db, orders, salaries, users, clients, reqs, now, nextOrderId, faults, issued>>

\* ------- PUT /clients/:clientId/work/:workId/payment (mark work as paid)
Works(workType) == IF workType = "order" THEN orders ELSE projects

\* the request arrives; the amount is validated; work = await
\* Order.findById(workId) or EditingProject.findById(workId)
PutWorkPaymentFor(i, limit, clientIds, workTypes, amounts) ==
  /\ Admit(i, limit)
  /\ \E c \in clientIds, workType \in workTypes, amount \in amounts :
     \E workId \in (IF workType = "order" THEN OrderIds ELSE ProjectIds) :
       LET r == [op |-> "workPayment", pc |-> "done", id |-> c, workId |-> workId,
                 workType |-> workType, amount |-> amount, work |-> <<>>,
                 updated |-> FALSE, client |-> <<>>, seen |-> <<>>,
                 totalDue |-> 0, totalReceived |-> 0,
                 res |-> 404, failedAt |-> <<>>, snap |-> Snap(limit)]
       IN reqs' = [reqs EXCEPT ![i] =
            IF amount < 0 THEN [r EXCEPT !.res = 400]
            ELSE IF workId \notin DOMAIN Works(workType) THEN r
            ELSE IF amount > Works(workType)[workId].totalAmount THEN [r EXCEPT !.res = 400]
            ELSE [r EXCEPT !.pc = "update", !.res = 0, !.work = Works(workType)[workId]]]
  /\ UNCHANGED <<db, store, now, nextOrderId, faults, issued>>

PutWorkPayment(i, limit, amounts) ==
  PutWorkPaymentFor(i, limit, Clients, {"order", "project"}, amounts)

\* faulty variant: only receivedPayment is sent
SetWorkPayment_receivedOnly(coll, workId, total, amount) ==
  IF workId \notin DOMAIN coll THEN coll
  ELSE [coll EXCEPT ![workId].receivedPayment = amount]

\* findByIdAndUpdate(workId, {receivedPayment, remainingPayment}): the total
\* is the one loaded before; no save hook runs
SetWorkPayment(coll, workId, total, amount) ==
  IF workId \notin DOMAIN coll THEN coll
  ELSE [coll EXCEPT ![workId].receivedPayment = amount,
                    ![workId].remainingPayment = total - amount]

\* updateResult = await Order.findByIdAndUpdate(...) or
\* EditingProject.findByIdAndUpdate(...)
PutWorkPayment_update(i) ==
  /\ reqs[i].op = "workPayment" /\ reqs[i].pc = "update"
  /\ LET r == reqs[i]
     IN /\ orders' = IF r.workType = "order"
                     THEN SetWorkPayment(orders, r.workId, r.work.totalAmount, r.amount)
                     ELSE orders
        /\ projects' = IF r.workType = "project"
                       THEN SetWorkPayment(projects, r.workId, r.work.totalAmount, r.amount)
                       ELSE projects
        /\ reqs' = [reqs EXCEPT ![i].pc = "clientFind",
                                ![i].updated = (r.workId \in DOMAIN Works(r.workType))]
  /\ UNCHANGED <<db, salaries, users, clients, now, nextOrderId, faults, issued>>

\* res.json({work: {_id: updateResult._id, ...}}): a null updateResult throws
WorkPaymentResult(r) == IF r.updated THEN 200 ELSE 500

\* const client = await Client.findById(clientId); if (client) {...}
PutWorkPayment_clientFind(i) ==
  /\ reqs[i].op = "workPayment" /\ reqs[i].pc = "clientFind"
  /\ reqs' = IF reqs[i].id \in DOMAIN clients
             THEN [reqs EXCEPT ![i].pc = "ordersFind", ![i].client = clients[reqs[i].id]]
             ELSE [reqs EXCEPT ![i].pc = "done", ![i].res = WorkPaymentResult(reqs[i])]
  /\ UNCHANGED <<db, store, now, nextOrderId, faults, issued>>

WorksOf(coll, c) == {w \in DOMAIN coll : coll[w].client = c}
\* faulty variant: the {client: clientId} filter is missing
TotalOf_everyClient(coll, c) ==
  SumOver([w \in DOMAIN coll |-> coll[w].totalAmount], DOMAIN coll)

TotalOf(coll, c) == SumOver([w \in DOMAIN coll |-> coll[w].totalAmount], WorksOf(coll, c))
ReceivedOf(coll, c) ==
  SumOver([w \in DOMAIN coll |-> coll[w].receivedPayment], WorksOf(coll, c))

\* const orders = await Order.find({client: clientId})
PutWorkPayment_ordersFind(i) ==
  /\ reqs[i].op = "workPayment" /\ reqs[i].pc = "ordersFind"
  /\ reqs' = [reqs EXCEPT ![i].pc = "projectsFind",
                          ![i].totalDue = TotalOf(orders, reqs[i].id),
                          ![i].totalReceived = ReceivedOf(orders, reqs[i].id)]
  /\ UNCHANGED <<db, store, now, nextOrderId, faults, issued>>

\* const projects = await EditingProject.find({client: clientId}); the sums
PutWorkPayment_projectsFind(i) ==
  /\ reqs[i].op = "workPayment" /\ reqs[i].pc = "projectsFind"
  /\ reqs' = [reqs EXCEPT ![i].pc = "clientUpdate",
                          ![i].totalDue = @ + TotalOf(projects, reqs[i].id),
                          ![i].totalReceived = @ + ReceivedOf(projects, reqs[i].id)]
  /\ UNCHANGED <<db, store, now, nextOrderId, faults, issued>>

\* the status the full recalculation derives from the two sums
RecalcStatus(totalDue, totalReceived) ==
  IF totalDue = 0 THEN "pending"
  ELSE IF totalReceived >= totalDue THEN "paid"
  ELSE IF totalReceived > 0 THEN "partial"
  ELSE "pending"

\* the counters the full recalculation writes
Recalculated(totalDue, totalReceived) ==
  [totalPaymentsDue |-> totalDue,
   receivedPayments |-> totalReceived,
   pendingPayments |-> Max(0, totalDue - totalReceived),
   paymentStatus |-> RecalcStatus(totalDue, totalReceived)]

\* faulty variant: the sums are taken from the stored documents in the same
\* step as the client is written
PutWorkPayment_clientUpdate_atomic(i) ==
  /\ reqs[i].op = "workPayment" /\ reqs[i].pc = "clientUpdate"
  /\ LET c == reqs[i].id
         w == Recalculated(TotalOf(orders, c) + TotalOf(projects, c),
                           ReceivedOf(orders, c) + ReceivedOf(projects, c))
     IN clients' =
          IF c \notin DOMAIN clients THEN clients
          ELSE [clients EXCEPT ![c].totalPaymentsDue = w.totalPaymentsDue,
                               ![c].receivedPayments = w.receivedPayments,
                               ![c].pendingPayments = w.pendingPayments,
                               ![c].paymentStatus = w.paymentStatus]
  /\ reqs' = [reqs EXCEPT ![i].pc = "done", ![i].res = WorkPaymentResult(reqs[i])]
  /\ UNCHANGED <<db, orders, salaries, users, projects, now, nextOrderId, faults, issued>>

\* await Client.findByIdAndUpdate(clientId, {totalPaymentsDue, ...}); res.json
PutWorkPayment_clientUpdate(i) ==
  /\ reqs[i].op = "workPayment" /\ reqs[i].pc = "clientUpdate"
  /\ LET c == reqs[i].id
         w == Recalculated(reqs[i].totalDue, reqs[i].totalReceived)
     IN clients' =
          IF c \notin DOMAIN clients THEN clients
          ELSE [clients EXCEPT ![c].totalPaymentsDue = w.totalPaymentsDue,
                               ![c].receivedPayments = w.receivedPayments,
                               ![c].pendingPayments = w.pendingPayments,
                               ![c].paymentStatus = w.paymentStatus]
  /\ reqs' = [reqs EXCEPT ![i].pc = "done", ![i].res = WorkPaymentResult(reqs[i])]
  /\ UNCHANGED <<db, orders, salaries, users, projects, now, nextOrderId, faults, issued>>

\* ------------------------------------------------- GET /dashboard/*
\* req.query of the dashboard and list routes.  A parameter left out of the
\* query string is "" (undefined, falsy).  A userId is the 24-hex string of a
\* user's _id ("objectId"), the identity provider's UID stored in the user's
\* firebaseUID ("uid"), or left out ("none"); `of` names the user it denotes
\* (3: no stored user).
UserIdParams ==
  {[form |-> f, of |-> u] : f \in {"objectId", "uid"}, u \in Users \cup {3}}
    \cup {[form |-> "none", of |-> 0]}

Queries(shops, roles, userIds) == [shopName : shops, userRole : roles, userId : userIds]

\* the queries of the dashboard runs: an assignee under every form of
\* userId, an owner, each with and without a shopName
DashQueries ==
  Queries({"", "B"}, {"worker"}, UserIdParams)
    \cup Queries({"", "B"}, {"owner"}, {[form |-> "none", of |-> 0]})

\* the requests of the dashboard runs: two assignees, each on the order or not
DashOrders ==
  OrderInputs({1}, {5}, {0}, ListsOver({[who |-> 1, payment |-> 2]}),
              ListsOver({[who |-> 2, payment |-> 1]}))

\* mongoose.Types.ObjectId.isValid(userId)
IsValidObjectId(p) == p.form = "objectId"

\* User.findOne({ firebaseUID: userId }): the user's _id, 0 for null
FindByFirebaseUID(p) == IF p.form = "uid" /\ p.of \in DOMAIN users THEN p.of ELSE 0

\* User.findById(userId): the user's _id, 0 for null, -1 when the string
\* cannot be cast to an ObjectId (CastError)
FindById(p) ==
  CASE p.form = "objectId" -> IF p.of \in DOMAIN users THEN p.of ELSE 0
    [] p.form = "uid" -> -1
    [] OTHER -> 0

\* the start and end of today enclose the date d
IsToday(d, today) == d = today

\* Order.find({ $or: [{ 'workers.worker': uid }, { 'transporters.transporter': uid }] })
\* faulty variant: the orders are not filtered by assignee
OrdersOfUser_all(uid) == DOMAIN orders

OrdersOfUser(uid) ==
  {id \in DOMAIN orders :
     \/ \E j \in 1..Len(orders[id].workers) : orders[id].workers[j].who = uid
     \/ \E j \in 1..Len(orders[id].transporters) : orders[id].transporters[j].who = uid}

\* EditingProject.find({ editor: uid })
ProjectsOfUser(uid) == {p \in DOMAIN projects : projects[p].editor = uid}

\* Salary.find({ employee: uid })
SalariesOfUser(uid) == {s \in salaries : s.employee = uid}

\* Order.find(shopName ? { shopName } : {}), EditingProject.find(...)
OrdersOfShop(shop) == {id \in DOMAIN orders : shop = "" \/ orders[id].shopName = shop}
ProjectsOfShop(shop) == {p \in DOMAIN projects : shop = "" \/ projects[p].shopName = shop}

RECURSIVE SumSalaries(_)
SumSalaries(S) ==
  IF S = {} THEN 0
  ELSE LET s == CHOOSE x \in S : TRUE IN s.amount + SumSalaries(S \ {s})

\* docs.filter(d => d.status === 'completed').length, and with !==
Completed(f, S) == Cardinality({x \in S : f[x].status = "completed"})
Active(f, S) == Cardinality(S) - Completed(f, S)

\* the stats object both routers fill for an assignee
AssigneeStats(userOrders, userProjects, userSalaries) ==
  LET total == SumSalaries(userSalaries)
      paid == SumSalaries({s \in userSalaries : s.isPaid})
  IN [activeOrders |-> Active(orders, userOrders),
      completedOrders |-> Completed(orders, userOrders),
      activeProjects |-> Active(projects, userProjects),
      completedProjects |-> Completed(projects, userProjects),
      totalEarnings |-> total, paidSalary |-> paid, remainingSalary |-> total - paid]

\* the stats object both routers fill for an owner, from orders and projects
OwnerStats(shop) ==
  [remainingOrders |-> Active(orders, OrdersOfShop(shop)),
   doneOrders |-> Completed(orders, OrdersOfShop(shop)),
   totalPayment |-> SumOver([x \in DOMAIN orders |-> orders[x].totalAmount], OrdersOfShop(shop)),
   receivedPayment |-> SumOver([x \in DOMAIN orders |-> orders[x].receivedPayment], OrdersOfShop(shop))]

\* a response, with the documents the handler's queries returned
Reply(res, data, userOrders, userProjects, userSalaries) ==
  [res |-> res, data |-> data, userOrders |-> userOrders,
   userProjects |-> userProjects, userSalaries |-> userSalaries]

\* routes/dashboard.js, GET /stats, the router that resolves the UID:
\* let actualUserId = userId when it is a valid ObjectId, else the _id of
\* the user whose firebaseUID it is; a userId that resolves to nothing
\* leaves the zeroes the stats object starts with
ActualUserId(p) ==
  IF p.form = "none" THEN 0
  ELSE IF IsValidObjectId(p) THEN p.of ELSE FindByFirebaseUID(p)

Stats(q) ==
  IF q.userRole = "owner"
  THEN Reply(200, OwnerStats(q.shopName), {}, {}, {})
  ELSE LET uid == ActualUserId(q.userId)
           uo == IF uid = 0 THEN {} ELSE OrdersOfUser(uid)
           up == IF uid = 0 THEN {} ELSE ProjectsOfUser(uid)
           us == IF uid = 0 THEN {} ELSE SalariesOfUser(uid)
       IN Reply(200, AssigneeStats(uo, up, us), uo, up, us)

\* an alert, its kind and its count, pushed when the count is positive;
\* the alert pushed when none was
AlertIf(kind, n) == IF n > 0 THEN <<[kind |-> kind, count |-> n]>> ELSE <<>>
OrElse(alerts, kind) == IF alerts = <<>> THEN <<[kind |-> kind, count |-> 0]>> ELSE alerts

\* GET /alerts of the same router: orders whose orderDate is today and
\* projects whose endDate is today, not completed
Alerts(q) ==
  IF q.userRole = "owner"
  THEN LET os == {id \in DOMAIN orders : /\ orders[id].shopName = q.shopName
                                         /\ IsToday(orders[id].orderDate, now)
                                         /\ orders[id].status # "completed"}
           ps == {p \in DOMAIN projects : /\ projects[p].shopName = q.shopName
                                          /\ IsToday(projects[p].endDate, now)
                                          /\ projects[p].status # "completed"}
           team == UNION {{<<orders[id].workers[j].who, "Worker">> :
                              j \in 1..Len(orders[id].workers)} : id \in os}
                     \cup UNION {{<<orders[id].transporters[j].who, "Transporter">> :
                              j \in 1..Len(orders[id].transporters)} : id \in os}
                     \cup {<<projects[p].editor, "Editor">> : p \in ps}
       IN Reply(200, OrElse(AlertIf("orders", Cardinality(os))
                              \o AlertIf("projects", Cardinality(ps))
                              \o AlertIf("team", Cardinality(team)), "allGood"),
                {}, {}, {})
  ELSE LET uid == ActualUserId(q.userId)
           uo == IF uid = 0 THEN {}
                 ELSE {id \in OrdersOfUser(uid) : /\ IsToday(orders[id].orderDate, now)
                                                  /\ orders[id].status # "completed"}
           up == IF uid = 0 THEN {}
                 ELSE {p \in ProjectsOfUser(uid) : /\ IsToday(projects[p].endDate, now)
                                                   /\ projects[p].status # "completed"}
       IN Reply(200, OrElse(AlertIf("orders", Cardinality(uo))
                              \o AlertIf("projects", Cardinality(up)), "allGood"),
                uo, up, {})

\* routes/dashboard.js, GET /stats, the router that looks the user up with
\* User.findById(userId): 404 without a user, 500 when the lookup throws
\* every stored user and client belongs to this shop
HomeShop == "A"

PendingOfShop(shop) == {s \in salaries : ~s.isPaid /\ (shop = "" \/ HomeShop = shop)}
ClientsOfShop(shop) == {c \in DOMAIN clients : shop = "" \/ HomeShop = shop}

StatsById(q) ==
  IF q.userRole = "owner"
  THEN LET due == SumOver([x \in DOMAIN clients |-> clients[x].totalPaymentsDue], ClientsOfShop(q.shopName))
           received == SumOver([x \in DOMAIN clients |-> clients[x].receivedPayments], ClientsOfShop(q.shopName))
       IN Reply(200, [stats |-> OwnerStats(q.shopName),
                      workerPayments |-> SumSalaries(PendingOfShop(q.shopName)),
                      remainingClientPayments |-> due - received,
                      totalClientPaymentsDue |-> due,
                      totalClientPaymentsReceived |-> received], {}, {}, {})
  ELSE LET uid == FindById(q.userId)
       IN IF uid = -1 THEN Reply(500, <<>>, {}, {}, {})
          ELSE IF uid = 0 THEN Reply(404, <<>>, {}, {}, {})
          ELSE Reply(200, AssigneeStats(OrdersOfUser(uid), ProjectsOfUser(uid),
                                        SalariesOfUser(uid)),
                     OrdersOfUser(uid), ProjectsOfUser(uid), SalariesOfUser(uid))

\* GET /alerts of the same router: orders whose completionDate or orderDate
\* is today, projects whose endDate is today, unpaid salary entries
DueToday(os) ==
  {id \in os : /\ \/ IsToday(orders[id].completionDate, now)
                  \/ IsToday(orders[id].orderDate, now)
               /\ orders[id].status # "completed"}

EndingToday(ps) ==
  {p \in ps : IsToday(projects[p].endDate, now) /\ projects[p].status # "completed"}

AlertsById(q) ==
  IF q.userRole = "owner"
  THEN LET os == DueToday(OrdersOfShop(q.shopName))
           ps == EndingToday(ProjectsOfShop(q.shopName))
           pending == PendingOfShop(q.shopName)
       IN Reply(200, OrElse(AlertIf("orders", Cardinality(os))
                              \o AlertIf("projects", Cardinality(ps))
                              \o AlertIf("salary", Cardinality(pending)), "allClear"),
                {}, {}, {})
  ELSE LET uid == FindById(q.userId)
       IN IF uid = -1 THEN Reply(500, <<>>, {}, {}, {})
          ELSE IF uid = 0 THEN Reply(404, <<>>, {}, {}, {})
          ELSE LET uo == DueToday(OrdersOfUser(uid))
                   up == EndingToday(ProjectsOfUser(uid))
                   us == {s \in SalariesOfUser(uid) : ~s.isPaid}
                   assigned == OrdersOfUser(uid) \cup ProjectsOfUser(uid)
               IN Reply(200, OrElse(AlertIf("orders", Cardinality(uo))
                                      \o AlertIf("projects", Cardinality(up))
                                      \o AlertIf("salary", Cardinality(us)),
                                    IF assigned = {} THEN "noAssignments" ELSE "greatJob"),
                        uo, up, us)

\* a dashboard or list request is answered from the store as it is now
Get(i, limit, route, q, reply) ==
  /\ Admit(i, limit)
  /\ reqs' = [reqs EXCEPT ![i] =
          [op |-> route, q |-> q, pc |-> "done", res |-> reply.res,
           reply |-> reply, today |-> now, failedAt |-> <<>>, snap |-> Snap(limit)]]
  /\ UNCHANGED <<db, store, now, nextOrderId, faults, issued>>

GetStats(i, limit, queries) == \E q \in queries : Get(i, limit, "stats", q, Stats(q))
GetAlerts(i, limit, queries) == \E q \in queries : Get(i, limit, "alerts", q, Alerts(q))
GetStatsById(i, limit, queries) ==
  \E q \in queries : Get(i, limit, "statsById", q, StatsById(q))
GetAlertsById(i, limit, queries) ==
  \E q \in queries : Get(i, limit, "alertsById", q, AlertsById(q))

\* ------------------------------------- GET /clients/:id/work-history
\* a || b on numbers: b when a is 0
OrNum(a, b) == IF a # 0 THEN a ELSE b

\* the work item built from a stored order or project
WorkItem(type, id, doc, date) ==
  [id |-> id, type |-> type,
   totalAmount |-> OrNum(doc.totalAmount, 0),
   receivedPayment |-> OrNum(doc.receivedPayment, 0),
   remainingPayment |-> OrNum(doc.remainingPayment, OrNum(doc.totalAmount, 0)),
   status |-> doc.status, date |-> date,
   isPaid |-> OrNum(doc.receivedPayment, 0) >= OrNum(doc.totalAmount, 0)]

\* Order.find({ client }).sort({ orderDate: -1 }) and
\* EditingProject.find({ client }).sort({ startDate: -1 }), as work items
RECURSIVE ByDate(_)
ByDate(S) ==
  IF S = {} THEN <<>>
  ELSE LET first == CHOOSE x \in S : \A y \in S :
                      \/ x.date > y.date
                      \/ x.date = y.date /\ x.type = "order" /\ y.type = "project"
                      \/ x.date = y.date /\ x.type = y.type /\ x.id <= y.id
       IN <<first>> \o ByDate(S \ {first})

\* workHistory: the orders' items, then the projects', sorted newest first
WorkHistory(c) ==
  ByDate({WorkItem("order", id, orders[id], orders[id].orderDate) : id \in WorksOf(orders, c)}
           \cup {WorkItem("project", p, projects[p], projects[p].startDate) :
                   p \in WorksOf(projects, c)})

\* the request arrives; Client.findById, Order.find, EditingProject.find
GetWorkHistory(i, limit, clientIds) ==
  /\ Admit(i, limit)
  /\ \E c \in clientIds :
       reqs' = [reqs EXCEPT ![i] =
         [op |-> "workHistory", client |-> c, pc |-> "done",
          res |-> IF c \in DOMAIN clients THEN 200 ELSE 404,
          workHistory |-> IF c \in DOMAIN clients THEN WorkHistory(c) ELSE <<>>,
          failedAt |-> <<>>, snap |-> Snap(limit)]]
  /\ UNCHANGED <<db, store, now, nextOrderId, faults, issued>>

\* ----------------------------------------- GET /orders, GET /clients
\* the queries of the list runs: each parameter given or left out
ListQueries == Queries({"", "A"}, {"", "owner", "worker"}, UserIdParams)

\* .sort({ createdAt: -1 }): the ids of S, newest first
RECURSIVE NewestFirst(_)
NewestFirst(S) ==
  IF S = {} THEN <<>>
  ELSE LET first == CHOOSE x \in S : \A y \in S : x >= y
       IN <<first>> \o NewestFirst(S \ {first})

\* GET /orders: the ids of the orders Order.find(filter) returns
ListOrders(q) ==
  IF q.shopName # "" /\ q.userRole # "owner"
  THEN IF q.userId.form = "none" \/ ~IsValidObjectId(q.userId) THEN <<>>
       ELSE NewestFirst(OrdersOfShop(q.shopName) \cap OrdersOfUser(q.userId.of))
  ELSE IF q.shopName # "" /\ q.userRole = "owner"
  THEN NewestFirst(OrdersOfShop(q.shopName))
  ELSE NewestFirst(DOMAIN orders)

\* GET /clients: the ids of the clients Client.find(filter) returns
ListClients(q) ==
  IF q.shopName # "" /\ q.userRole # "owner" THEN <<>>
  ELSE IF q.shopName # "" /\ q.userRole = "owner"
  THEN NewestFirst(ClientsOfShop(q.shopName))
  ELSE NewestFirst(DOMAIN clients)

GetOrders(i, limit, queries) ==
  \E q \in queries : Get(i, limit, "orders", q, Reply(200, ListOrders(q), {}, {}, {}))
GetClients(i, limit, queries) ==
  \E q \in queries : Get(i, limit, "clients", q, Reply(200, ListClients(q), {}, {}, {}))

\* ------------------------------------------- server.js: the DB gate
\* db.isDbConnected is the flag; connecting: a connectDB() call awaits
\* mongoose.connect; retry: a setTimeout(connectDB, 30000) is pending;
\* listening: the connection's event handlers are registered; link: whether
\* the driver holds a connection; last: the last connect outcome or event
\* (history).
\* the state after server.js has run: let isDbConnected = false; connectDB()
InitGate ==
  /\ orders = <<>>
  /\ salaries = {}
  /\ users = [u \in Users |-> NewUser]
  /\ clients = [c \in Clients |-> NewClient]
  /\ projects = <<>>
  /\ reqs = [i \in Slots |-> Idle]
  /\ now = 1
  /\ nextOrderId = 1
  /\ faults = 0
  /\ issued = NoneIssued
  /\ db = [isDbConnected |-> FALSE, connecting |-> TRUE, retry |-> FALSE,
           listening |-> FALSE, link |-> "down", last |-> "start"]

\* await mongoose.connect(...) resolves: isDbConnected = true and the
\* handlers of 'error', 'disconnected', 'reconnected' are registered
connectDB_resolves ==
  /\ db.connecting
  /\ db' = [db EXCEPT !.isDbConnected = TRUE, !.connecting = FALSE,
                      !.listening = TRUE, !.link = "up", !.last = "connected"]
  /\ UNCHANGED <<store, reqs, now, nextOrderId, faults, issued>>

\* mongoose.connect rejects: isDbConnected = false; setTimeout(connectDB, 30000)
connectDB_rejects ==
  /\ db.connecting
  /\ db' = [db EXCEPT !.isDbConnected = FALSE, !.connecting = FALSE,
                      !.retry = TRUE, !.last = "failed"]
  /\ UNCHANGED <<store, reqs, now, nextOrderId, faults, issued>>

\* the timer fires: connectDB() is called again
connectDB_retry ==
  /\ db.retry
  /\ db' = [db EXCEPT !.retry = FALSE, !.connecting = TRUE]
  /\ UNCHANGED <<store, reqs, now, nextOrderId, faults, issued>>

\* mongoose.connection.on('error', ...): isDbConnected = false
on_error ==
  /\ db.listening
  /\ db' = [db EXCEPT !.isDbConnected = FALSE, !.last = "error"]
  /\ UNCHANGED <<store, reqs, now, nextOrderId, faults, issued>>

\* mongoose.connection.on('disconnected', ...): isDbConnected = false
on_disconnected ==
  /\ db.listening /\ db.link = "up"
  /\ db' = [db EXCEPT !.isDbConnected = FALSE, !.link = "down", !.last = "disconnected"]
  /\ UNCHANGED <<store, reqs, now, nextOrderId, faults, issued>>

\* mongoose.connection.on('reconnected', ...): isDbConnected = true
on_reconnected ==
  /\ db.listening /\ db.link = "down"
  /\ db' = [db EXCEPT !.isDbConnected = TRUE, !.link = "up", !.last = "reconnected"]
  /\ UNCHANGED <<store, reqs, now, nextOrderId, faults, issued>>

\* checkDbConnection with isDbConnected false: 503 DB_UNAVAILABLE, next()
\* is not called
checkDbConnection(i, limit) ==
  /\ Free(i, limit)
  /\ ~db.isDbConnected
  /\ reqs' = [reqs EXCEPT ![i] =
          [op |-> "unavailable", pc |-> "done", res |-> 503, code |-> "DB_UNAVAILABLE",
           failedAt |-> <<>>, snap |-> Snap(limit)]]
  /\ UNCHANGED <<db, store, now, nextOrderId, faults, issued>>

\* ------------------------------------------------ a store call throws
Throw(i) ==
  /\ Running(i)
  /\ faults < MaxFaults
  /\ faults' = faults + 1
  /\ reqs' = [reqs EXCEPT ![i] = Caught(reqs[i])]
  /\ UNCHANGED <<db, store, now, nextOrderId, issued>>

\* a store call of a request on one of the routes `ops` throws
ThrowOf(i, ops) == reqs[i].op \in ops /\ Throw(i)

\* ------------------------------------------------------ time passes
\* the value `new Date()` returns grows between two calls
Tick ==
  /\ now < MaxClock
  /\ now' = now + 1
  /\ UNCHANGED <<db, store, reqs, nextOrderId, faults, issued>>

\* ------------------------------------------------- response delivered
Finish(i) ==
  /\ Busy(i) /\ reqs[i].pc = "done"
  /\ reqs' = [reqs EXCEPT ![i] = Idle]
  /\ UNCHANGED <<db, store, now, nextOrderId, faults, issued>>

\* the steps of the requests in flight, by route
CreateStep(i) ==
  \/ createSalaryEntriesFromOrder_save(i)
  \/ createSalaryEntriesFromOrder_inc(i)
  \/ PostOrder_clientInc(i)

StatusStep(i) ==
  \/ markOrderSalariesAsPaid_find(i)
  \/ markOrderSalariesAsPaid_save(i)
  \/ markOrderSalariesAsPaid_inc(i)

DeleteStep(i) ==
  \/ DeleteOrder_deleteSalaries(i)
  \/ DeleteOrder_userDec(i)
  \/ DeleteOrder_clientDec(i)
  \/ DeleteOrder_delete(i)

WorkPaymentStep(i) ==
  \/ PutWorkPayment_update(i)
  \/ PutWorkPayment_clientFind(i)
  \/ PutWorkPayment_ordersFind(i)
  \/ PutWorkPayment_projectsFind(i)
  \/ PutWorkPayment_clientUpdate(i)

\* the order routes, one request at a time, no store failure
Next ==
  \/ \E i \in Slots : PostOrder(i, 1, LedgerOrders)
  \/ \E i \in Slots : PutStatus(i, 1, Statuses)
  \/ \E i \in Slots : PutPayment(i, 1, PaymentInputs)
  \/ \E i \in Slots : DeleteOrder(i, 1)
  \/ \E i \in Slots : CreateStep(i)
  \/ \E i \in Slots : StatusStep(i)
  \/ \E i \in Slots : PutPayment_save(i)
  \/ \E i \in Slots : DeleteStep(i)
  \/ \E i \in Slots : Finish(i)

Spec == Init /\ [][Next]_vars

\* order create, completion and delete, one request at a time, where an
\* awaited store call after the first may throw
NextFail ==
  \/ \E i \in Slots : PostOrder(i, 1, PaidOrders)
  \/ \E i \in Slots : PutStatus(i, 1, {"completed"})
  \/ \E i \in Slots : DeleteOrder(i, 1)
  \/ \E i \in Slots : CreateStep(i)
  \/ \E i \in Slots : StatusStep(i)
  \/ \E i \in Slots : DeleteStep(i)
  \/ \E i \in Slots : Throw(i)
  \/ \E i \in Slots : Finish(i)

SpecFail == Init /\ [][NextFail]_vars

\* order create, completion and delete with up to MaxConc requests in
\* flight, their store calls interleaved
NextConc ==
  \/ \E i \in Slots : PostOrder(i, MaxConc, ConcOrders)
  \/ \E i \in Slots : PutStatus(i, MaxConc, {"completed"})
  \/ \E i \in Slots : DeleteOrder(i, MaxConc)
  \/ \E i \in Slots : CreateStep(i)
  \/ \E i \in Slots : StatusStep(i)
  \/ \E i \in Slots : DeleteStep(i)
  \/ \E i \in Slots : Finish(i)

SpecConc == Init /\ [][NextConc]_vars

\* order create and delete alone, one request at a time
NextOrders ==
  \/ \E i \in Slots : PostOrder(i, 1, PlainOrders)
  \/ \E i \in Slots : DeleteOrder(i, 1)
  \/ \E i \in Slots : CreateStep(i)
  \/ \E i \in Slots : DeleteStep(i)
  \/ \E i \in Slots : Finish(i)

SpecOrders == Init /\ [][NextOrders]_vars

\* the routes that move a client's counters, one request at a time
NextBalance ==
  \/ \E i \in Slots : PostOrder(i, 1, BalanceOrders)
  \/ \E i \in Slots : DeleteOrder(i, 1)
  \/ \E i \in Slots : PutClientPayment(i, 1, ClientPaymentInputs)
  \/ \E i \in Slots : PutWorkPayment(i, 1, WorkPaymentInputs)
  \/ \E i \in Slots : SaveProject(i, 1)
  \/ \E i \in Slots : PostOrder_clientInc(i)
  \/ \E i \in Slots : DeleteOrder_deleteSalaries(i)
  \/ \E i \in Slots : DeleteOrder_clientDec(i)
  \/ \E i \in Slots : DeleteOrder_delete(i)
  \/ \E i \in Slots : PutClientPayment_save(i)
  \/ \E i \in Slots : WorkPaymentStep(i)
  \/ \E i \in Slots : Finish(i)

SpecBalance == Init /\ [][NextBalance]_vars

\* order create, client payment and work payment with up to MaxConc requests
\* in flight, their store calls interleaved
NextRace ==
  \/ \E i \in Slots : PostOrder(i, MaxConc, RaceOrders)
  \/ \E i \in Slots : PutClientPayment(i, MaxConc, RacePayments)
  \/ \E i \in Slots : PutWorkPayment(i, MaxConc, RacePayments)
  \/ \E i \in Slots : PostOrder_clientInc(i)
  \/ \E i \in Slots : PutClientPayment_save(i)
  \/ \E i \in Slots : WorkPaymentStep(i)
  \/ \E i \in Slots : Finish(i)

SpecRace == Init /\ [][NextRace]_vars

\* order create and the two routes that write an order's payment, with up
\* to MaxConc requests in flight
NextOrderPayments ==
  \/ \E i \in Slots : PostOrder(i, MaxConc, RaceOrders)
  \/ \E i \in Slots : PutPayment(i, MaxConc, PaymentInputs)
  \/ \E i \in Slots : PutWorkPaymentFor(i, MaxConc, {1}, {"order"}, RacePayments)
  \/ \E i \in Slots : PostOrder_clientInc(i)
  \/ \E i \in Slots : PutPayment_save(i)
  \/ \E i \in Slots : WorkPaymentStep(i)
  \/ \E i \in Slots : Finish(i)

SpecOrderPayments == Init /\ [][NextOrderPayments]_vars

\* the payment routes with amounts in and out of range, one request at a time
NextPayments ==
  \/ \E i \in Slots : PostOrder(i, 1, RaceOrders)
  \/ \E i \in Slots : PutPayment(i, 1, RangeInputs)
  \/ \E i \in Slots : PutClientPayment(i, 1, RangeInputs)
  \/ \E i \in Slots : PutWorkPayment(i, 1, RangeInputs)
  \/ \E i \in Slots : PostOrder_clientInc(i)
  \/ \E i \in Slots : PutPayment_save(i)
  \/ \E i \in Slots : PutClientPayment_save(i)
  \/ \E i \in Slots : WorkPaymentStep(i)
  \/ \E i \in Slots : Finish(i)

SpecPayments == Init /\ [][NextPayments]_vars

\* the routes that take the id of an order, client or work item, with
\* clients deleted and assignees that are no user, one request at a time
NextAbsent ==
  \/ \E i \in Slots : PostOrder(i, 1, AbsentOrders)
  \/ \E i \in Slots : DeleteClient(i, 1)
  \/ \E i \in Slots : PutStatus(i, 1, {"completed"})
  \/ \E i \in Slots : PutPayment(i, 1, PaymentInputs)
  \/ \E i \in Slots : DeleteOrder(i, 1)
  \/ \E i \in Slots : PutClientPayment(i, 1, {0})
  \/ \E i \in Slots : PutWorkPayment(i, 1, PaymentInputs)
  \/ \E i \in Slots : CreateStep(i)
  \/ \E i \in Slots : StatusStep(i)
  \/ \E i \in Slots : PutPayment_save(i)
  \/ \E i \in Slots : DeleteStep(i)
  \/ \E i \in Slots : PutClientPayment_save(i)
  \/ \E i \in Slots : WorkPaymentStep(i)
  \/ \E i \in Slots : Finish(i)

SpecAbsent == Init /\ [][NextAbsent]_vars

\* the writes of editing projects, one request at a time
NextProjects ==
  \/ \E i \in Slots : SaveProject(i, 1)
  \/ \E i \in Slots : UpdateProject(i, 1)
  \/ \E i \in Slots : PutWorkPayment(i, 1, WorkPaymentInputs)
  \/ \E i \in Slots : WorkPaymentStep(i)
  \/ \E i \in Slots : Finish(i)

SpecProjects == Init /\ [][NextProjects]_vars

\* order create and completion, one request at a time, with time passing
NextClock ==
  \/ \E i \in Slots : PostOrder(i, 1, ConcOrders)
  \/ \E i \in Slots : PutStatus(i, 1, {"completed"})
  \/ \E i \in Slots : CreateStep(i)
  \/ \E i \in Slots : StatusStep(i)
  \/ \E i \in Slots : Finish(i)
  \/ Tick

SpecClock == Init /\ [][NextClock]_vars

\* the dashboard of both routers next to order create and completion and
\* project creation, one request at a time, with time passing
NextDashboard ==
  \/ \E i \in Slots : PostOrder(i, 1, DashOrders)
  \/ \E i \in Slots : PutStatus(i, 1, {"completed"})
  \/ \E i \in Slots : SaveProjectFor(i, 1, {1}, Users, {"B"})
  \/ \E i \in Slots : CreateStep(i)
  \/ \E i \in Slots : StatusStep(i)
  \/ \E i \in Slots : GetStats(i, 1, DashQueries)
  \/ \E i \in Slots : GetAlerts(i, 1, DashQueries)
  \/ \E i \in Slots : GetStatsById(i, 1, DashQueries)
  \/ \E i \in Slots : GetAlertsById(i, 1, DashQueries)
  \/ \E i \in Slots : Finish(i)
  \/ Tick

SpecDashboard == Init /\ [][NextDashboard]_vars

\* order create and delete, one request at a time, where a store call of
\* a delete may throw: the delete answers 500 and can be sent again
NextRetry ==
  \/ \E i \in Slots : PostOrder(i, 1, PaidOrders)
  \/ \E i \in Slots : DeleteOrder(i, 1)
  \/ \E i \in Slots : CreateStep(i)
  \/ \E i \in Slots : DeleteStep(i)
  \/ \E i \in Slots : ThrowOf(i, {"delete"})
  \/ \E i \in Slots : Finish(i)

SpecRetry == Init /\ [][NextRetry]_vars

\* order create and completion with requests in flight together
NextCompletions ==
  \/ \E i \in Slots : PostOrder(i, MaxConc, ConcOrders)
  \/ \E i \in Slots : PutStatus(i, MaxConc, {"completed"})
  \/ \E i \in Slots : CreateStep(i)
  \/ \E i \in Slots : StatusStep(i)
  \/ \E i \in Slots : Finish(i)

SpecCompletions == Init /\ [][NextCompletions]_vars

\* a client's work history next to order and project creation and work
\* payments, one request at a time
NextHistory ==
  \/ \E i \in Slots : PostOrder(i, 1, BalanceOrders)
  \/ \E i \in Slots : SaveProject(i, 1)
  \/ \E i \in Slots : PutWorkPayment(i, 1, WorkPaymentInputs)
  \/ \E i \in Slots : PostOrder_clientInc(i)
  \/ \E i \in Slots : WorkPaymentStep(i)
  \/ \E i \in Slots : GetWorkHistory(i, 1, Clients \cup {3})
  \/ \E i \in Slots : Finish(i)

SpecHistory == Init /\ [][NextHistory]_vars

\* the order and client lists next to order creation, one request at a time
NextLists ==
  \/ \E i \in Slots : PostOrder(i, 1, DashOrders)
  \/ \E i \in Slots : CreateStep(i)
  \/ \E i \in Slots : GetOrders(i, 1, ListQueries)
  \/ \E i \in Slots : GetClients(i, 1, ListQueries)
  \/ \E i \in Slots : Finish(i)

SpecLists == Init /\ [][NextLists]_vars

\* the gate in front of order create and the order and client lists, one
\* request at a time, from server start
NextGate ==
  \/ connectDB_resolves
  \/ connectDB_rejects
  \/ connectDB_retry
  \/ on_error
  \/ on_disconnected
  \/ on_reconnected
  \/ \E i \in Slots : checkDbConnection(i, 1)
  \/ \E i \in Slots : PostOrder(i, 1, RaceOrders)
  \/ \E i \in Slots : PostOrder_clientInc(i)
  \/ \E i \in Slots : GetOrders(i, 1, DashQueries)
  \/ \E i \in Slots : GetClients(i, 1, DashQueries)
  \/ \E i \in Slots : Finish(i)

SpecGate == InitGate /\ [][NextGate]_vars

\* a pending mongoose.connect settles (serverSelectionTimeoutMS), a pending
\* timer fires, and of the connection attempts made again and again one
\* succeeds
SpecGateLive ==
  /\ SpecGate
  /\ WF_vars(connectDB_resolves \/ connectDB_rejects)
  /\ WF_vars(connectDB_retry)
  /\ SF_vars(connectDB_resolves)

\* ===================================================== checked properties
Quiescent == \A i \in Slots : ~Running(i)
Answered(i, op) == reqs[i].op = op /\ reqs[i].pc = "done"

RECURSIVE SumPayments(_, _)
SumPayments(list, u) ==
  IF list = <<>> THEN 0
  ELSE (IF Head(list).who = u THEN Head(list).payment ELSE 0) + SumPayments(Tail(list), u)

PaymentsTo(order, u) == SumPayments(order.workers, u) + SumPayments(order.transporters, u)

RECURSIVE SumAmounts(_)
SumAmounts(S) ==
  IF S = {} THEN 0
  ELSE LET s == CHOOSE x \in S : TRUE IN s.amount + SumAmounts(S \ {s})

EntriesOf(sals, id) == {s \in sals : s.order = id}

Positions(order) ==
  {<<"w", j>> : j \in 1..Len(order.workers)} \cup {<<"t", j>> : j \in 1..Len(order.transporters)}

At(order, p) == ListOf(order, p[1])[p[2]]

\* the sums the reconciliation is defined by, over the stored documents
ClientDue(c) ==
  SumOver([w \in DOMAIN orders |-> IF orders[w].client = c THEN orders[w].totalAmount ELSE 0],
          DOMAIN orders)
  + SumOver([w \in DOMAIN projects |->
               IF projects[w].client = c THEN projects[w].totalAmount ELSE 0],
            DOMAIN projects)

ClientReceived(c) ==
  SumOver([w \in DOMAIN orders |->
             IF orders[w].client = c THEN orders[w].receivedPayment ELSE 0],
          DOMAIN orders)
  + SumOver([w \in DOMAIN projects |->
               IF projects[w].client = c THEN projects[w].receivedPayment ELSE 0],
            DOMAIN projects)

\* C1: whenever no request is in the middle of its writes, every client has
\* pendingPayments = max(0, totalPaymentsDue - receivedPayments).
C1_PendingIsDueMinusReceived ==
  Quiescent =>
    \A c \in DOMAIN clients :
      clients[c].pendingPayments =
        Max(0, clients[c].totalPaymentsDue - clients[c].receivedPayments)

\* C2: in every state of every interleaving of order create, completion and
\* delete, every user has remainingSalary = totalEarnings - paidSalary.
C2_RemainingIsEarningsMinusPaid ==
  \A u \in DOMAIN users :
    users[u].remainingSalary = users[u].totalEarnings - users[u].paidSalary

\* a completion that has paid a salary and is still running, interleaved
\* with a delete that has reversed the earnings
C2_Witness ==
  \E i, j \in Slots :
    /\ reqs[i].op = "status" /\ reqs[i].pc = "salarySave" /\ reqs[i].idx = 2
    /\ reqs[j].op = "delete" /\ reqs[j].pc = "clientDec"
    /\ users[1].paidSalary = 2 /\ users[1].totalEarnings = 0

\* C3: after a successful create the Salary entries of the new order are
\* exactly one unpaid entry per assignment with a positive payment.
C3_OneEntryPerPositivePayment ==
  \A i \in Slots :
    (Answered(i, "create") /\ reqs[i].res = 201) =>
      EntriesOf(salaries, reqs[i].id) =
        {NewSalary(reqs[i].id, reqs[i].order, p[1], p[2]) :
           p \in {q \in Positions(reqs[i].order) : At(reqs[i].order, q).payment > 0}}

\* C4: a successful create raises each employee's totalEarnings and
\* remainingSalary by the sum of that employee's payments in the order,
\* leaves paidSalary alone, and the new entries are unpaid and sum to the
\* payments of the order.
C4_CreateCreditsAssignees ==
  \A i \in Slots :
    (Answered(i, "create") /\ reqs[i].res = 201) =>
      LET r == reqs[i]
          created == EntriesOf(salaries, r.id)
      IN /\ \A u \in Users :
              /\ users[u].totalEarnings =
                   r.snap.users[u].totalEarnings + PaymentsTo(r.order, u)
              /\ users[u].remainingSalary =
                   r.snap.users[u].remainingSalary + PaymentsTo(r.order, u)
              /\ users[u].paidSalary = r.snap.users[u].paidSalary
         /\ \A s \in created : ~s.isPaid
         /\ SumAmounts(created) = SumOver([u \in Users |-> PaymentsTo(r.order, u)], Users)

\* a create whose worker and transporter are the same employee, both paid
C4_Witness ==
  \E i \in Slots :
    /\ Answered(i, "create") /\ reqs[i].res = 201
    /\ Len(reqs[i].order.workers) = 1 /\ Len(reqs[i].order.transporters) = 1
    /\ reqs[i].order.workers[1].who = reqs[i].order.transporters[1].who
    /\ reqs[i].order.workers[1].payment > 0 /\ reqs[i].order.transporters[1].payment > 0
    /\ Cardinality(EntriesOf(salaries, reqs[i].id)) = 2

\* C5: a completion request for an order that is already completed finds no
\* unpaid entry and changes no salary entry, no counter and no notification.
C5_SecondCompletionIsNoOp ==
  \A i \in Slots :
    (/\ Answered(i, "status") /\ reqs[i].status = "completed"
     /\ reqs[i].id \in DOMAIN reqs[i].snap.orders
     /\ reqs[i].snap.orders[reqs[i].id].status = "completed") =>
      /\ reqs[i].found = <<>>
      /\ users = reqs[i].snap.users
      /\ salaries = reqs[i].snap.salaries

\* the second completion of an order whose entries the first one paid
C5_Witness ==
  \E i \in Slots :
    /\ Answered(i, "status") /\ reqs[i].status = "completed"
    /\ reqs[i].id \in DOMAIN reqs[i].snap.orders
    /\ reqs[i].snap.orders[reqs[i].id].status = "completed"
    /\ \E s \in salaries : s.order = reqs[i].id /\ s.isPaid

\* C6: a successful delete removes the order's Salary entries and the order,
\* takes each assignment's payment off the assignee's totalEarnings and
\* remainingSalary, and takes 1, totalAmount and (totalAmount -
\* receivedPayment as recorded on the order) off the client's
\* lifetimeOrders, totalPaymentsDue and pendingPayments.
C6_DeleteReversesOrder ==
  \A i \in Slots :
    (Answered(i, "delete") /\ reqs[i].res = 200) =>
      LET r == reqs[i]
          o == r.snap.orders[r.id]
          before == r.snap.clients[o.client]
      IN /\ r.id \notin DOMAIN orders
         /\ salaries = {s \in r.snap.salaries : s.order # r.id}
         /\ \A u \in Users :
              /\ users[u].totalEarnings = r.snap.users[u].totalEarnings - PaymentsTo(o, u)
              /\ users[u].remainingSalary =
                   r.snap.users[u].remainingSalary - PaymentsTo(o, u)
              /\ users[u].paidSalary = r.snap.users[u].paidSalary
         /\ clients[o.client].lifetimeOrders = before.lifetimeOrders - 1
         /\ clients[o.client].totalPaymentsDue = before.totalPaymentsDue - o.totalAmount
         /\ clients[o.client].pendingPayments =
              before.pendingPayments - (o.totalAmount - o.receivedPayment)

\* the delete of an order with a payment received and a paid worker
C6_Witness ==
  \E i \in Slots :
    /\ Answered(i, "delete") /\ reqs[i].res = 200
    /\ reqs[i].snap.orders[reqs[i].id].receivedPayment = 2
    /\ PaymentsTo(reqs[i].snap.orders[reqs[i].id], 1) = 2
    /\ EntriesOf(reqs[i].snap.salaries, reqs[i].id) # {}

\* the status the recalculation is to assign to (due, received)
C7_Status(due, received) ==
  IF received >= due /\ due > 0 THEN "paid"
  ELSE IF 0 < received /\ received < due THEN "partial"
  ELSE "pending"

\* C7: after a successful work-payment request the client's counters are
\* the sums over the client's orders and projects, pendingPayments is
\* max(0, due - received) and paymentStatus follows from the two sums.
C7_RecalculationOverwritesCounters ==
  \A i \in Slots :
    (Answered(i, "workPayment") /\ reqs[i].res = 200 /\ reqs[i].id \in DOMAIN clients) =>
      LET c == reqs[i].id
          due == ClientDue(c)
          received == ClientReceived(c)
      IN /\ clients[c].totalPaymentsDue = due
         /\ clients[c].receivedPayments = received
         /\ clients[c].pendingPayments = Max(0, due - received)
         /\ clients[c].paymentStatus = C7_Status(due, received)

\* two orders (5 with 2 received, 5 with 5 received) and a project (3 with 0
\* received) of one client, the other client having an order too
C7_Witness ==
  \E i \in Slots :
    /\ Answered(i, "workPayment") /\ reqs[i].res = 200
    /\ Cardinality(WorksOf(orders, reqs[i].id)) = 2
    /\ Cardinality(WorksOf(projects, reqs[i].id)) = 1
    /\ clients[reqs[i].id].totalPaymentsDue = 13
    /\ clients[reqs[i].id].receivedPayments = 7
    /\ clients[reqs[i].id].pendingPayments = 6
    /\ clients[reqs[i].id].paymentStatus = "partial"

\* C8: after any sequence of order creations and deletions the client's
\* stored totalPaymentsDue, receivedPayments and pendingPayments are the
\* values the full recalculation computes from the stored documents.
C8_IncrementalAgreesWithRecalculation ==
  Quiescent =>
    \A c \in DOMAIN clients :
      /\ clients[c].totalPaymentsDue = ClientDue(c)
      /\ clients[c].receivedPayments = ClientReceived(c)
      /\ clients[c].pendingPayments = Max(0, ClientDue(c) - ClientReceived(c))

\* position p comes before position q in the two loops
Before(p, q) == (p[1] = "w" /\ q[1] = "t") \/ (p[1] = q[1] /\ p[2] < q[2])

LedgerFailed(r) == \E k \in 1..Len(r.failedAt) : r.failedAt[k] \in {"salarySave", "userInc"}
ClientIncFailed(r) == \E k \in 1..Len(r.failedAt) : r.failedAt[k] = "clientInc"

\* the assignments whose entry was written, and those whose earnings were
\* credited, before the ledger derivation stopped at (r.kind, r.idx)
Written(r) ==
  {p \in Positions(r.order) :
     /\ HasPayment(At(r.order, p))
     /\ \/ ~LedgerFailed(r)
        \/ Before(p, <<r.kind, r.idx>>)
        \/ p = <<r.kind, r.idx>> /\ \E k \in 1..Len(r.failedAt) : r.failedAt[k] = "userInc"}

Credited(r) ==
  {p \in Positions(r.order) :
     HasPayment(At(r.order, p)) /\ (~LedgerFailed(r) \/ Before(p, <<r.kind, r.idx>>))}

RECURSIVE CreditTo(_, _, _)
CreditTo(order, P, u) ==
  IF P = {} THEN 0
  ELSE LET p == CHOOSE q \in P : TRUE
       IN (IF At(order, p).who = u THEN At(order, p).payment ELSE 0)
          + CreditTo(order, P \ {p}, u)

\* C9: a store failure after the primary write neither fails nor undoes it.
\* A create whose ledger derivation threw is answered 201 with the order
\* stored, the entries written and the earnings credited so far kept and the
\* client increment attempted; a create whose client increment threw is
\* answered 201 with the order and its entries kept; a completion whose
\* salary marking threw is answered 200 with the status stored.
C9_CascadeFailureKeepsPrimaryWrite ==
  \A i \in Slots :
    /\ (reqs[i].op = "create" /\ reqs[i].pc # "done" /\ reqs[i].failedAt # <<>>) =>
         reqs[i].pc = "clientInc"
    /\ Answered(i, "create") =>
         LET r == reqs[i]
             c == r.in.clientId
         IN /\ r.res = 201
            /\ r.id \in DOMAIN orders /\ orders[r.id] = r.order
            /\ EntriesOf(salaries, r.id) =
                 {NewSalary(r.id, r.order, p[1], p[2]) : p \in Written(r)}
            /\ \A u \in Users :
                 /\ users[u].totalEarnings =
                      r.snap.users[u].totalEarnings + CreditTo(r.order, Credited(r), u)
                 /\ users[u].remainingSalary =
                      r.snap.users[u].remainingSalary + CreditTo(r.order, Credited(r), u)
            /\ clients[c].totalPaymentsDue =
                 r.snap.clients[c].totalPaymentsDue +
                   (IF ClientIncFailed(r) THEN 0 ELSE r.in.totalAmount)
    /\ (Answered(i, "status") /\ reqs[i].id \in DOMAIN reqs[i].snap.orders) =>
         /\ reqs[i].res = 200
         /\ orders[reqs[i].id].status = reqs[i].status

\* a create answered after the ledger derivation threw with one of its two
\* entries written and credited
C9_Witness ==
  \E i \in Slots :
    /\ Answered(i, "create") /\ reqs[i].res = 201
    /\ reqs[i].failedAt = <<"salarySave">> /\ reqs[i].kind = "t"
    /\ Cardinality(EntriesOf(salaries, reqs[i].id)) = 1
    /\ Len(reqs[i].order.workers) = 1 /\ Len(reqs[i].order.transporters) = 1
    /\ clients[1].totalPaymentsDue = reqs[i].snap.clients[1].totalPaymentsDue + 5

\* C10: after a completion request that met no failure the order is
\* completed with a completionDate, none of its entries is unpaid, every
\* entry that was unpaid is paid with a paidDate, and each employee's
\* paidSalary grew, remainingSalary shrank and notifications grew by the
\* amounts, and the number, of those entries.
C10_CompletionPaysEveryEntry ==
  \A i \in Slots :
    (Answered(i, "status") /\ reqs[i].status = "completed" /\ reqs[i].res = 200) =>
      LET r == reqs[i]
          due == {s \in r.snap.salaries : s.order = r.id /\ ~s.isPaid}
      IN /\ orders[r.id].status = "completed" /\ orders[r.id].completionDate # 0
         /\ \A s \in EntriesOf(salaries, r.id) : s.isPaid
         /\ \A s \in due : [s EXCEPT !.isPaid = TRUE, !.paidDate = now] \in salaries
         /\ \A u \in Users :
              LET mine == {s \in due : s.employee = u}
              IN /\ users[u].paidSalary = r.snap.users[u].paidSalary + SumAmounts(mine)
                 /\ users[u].remainingSalary =
                      r.snap.users[u].remainingSalary - SumAmounts(mine)
                 /\ users[u].totalEarnings = r.snap.users[u].totalEarnings
                 /\ Len(users[u].notifications) =
                      Len(r.snap.users[u].notifications) + Cardinality(mine)

\* the completion of an order with two unpaid entries
C10_Witness ==
  \E i \in Slots :
    /\ Answered(i, "status") /\ reqs[i].status = "completed" /\ reqs[i].res = 200
    /\ Cardinality({s \in reqs[i].snap.salaries : s.order = reqs[i].id /\ ~s.isPaid}) = 2
    /\ \E u \in Users : Len(users[u].notifications) >= 2

\* C11: an order's status stays in {pending, in_progress, completed}, a
\* completed order stays completed and an in_progress order never goes back
\* to pending, whatever request is served.
C11_StatusOneWay ==
  [][\A id \in DOMAIN orders \cap DOMAIN orders' :
       /\ orders'[id].status \in {"pending", "in_progress", "completed"}
       /\ orders[id].status = "completed" => orders'[id].status = "completed"
       /\ orders[id].status = "in_progress" => orders'[id].status # "pending"]_vars

\* C12: with requests interleaved, every running counter of every user and
\* client equals its initial value (0) plus the sum of the deltas the
\* requests have issued for it: no increment is lost.
C12_NoIncrementLost ==
  /\ \A u \in Users :
       /\ users[u].totalEarnings = issued.users[u].totalEarnings
       /\ users[u].paidSalary = issued.users[u].paidSalary
       /\ users[u].remainingSalary = issued.users[u].remainingSalary
  /\ \A c \in Clients :
       /\ clients[c].lifetimeOrders = issued.clients[c].lifetimeOrders
       /\ clients[c].totalPaymentsDue = issued.clients[c].totalPaymentsDue
       /\ clients[c].pendingPayments = issued.clients[c].pendingPayments

\* two creates for the same client and worker that overlapped, both answered
C12_Witness ==
  /\ \A i \in Slots : Answered(i, "create") /\ reqs[i].res = 201
  /\ clients[1].lifetimeOrders = 2 /\ clients[1].totalPaymentsDue = 10
  /\ users[1].totalEarnings = 4

\* C13: the client counters are written from values read in an earlier
\* step of the same request (the sums of the two find calls; the
\* totalPaymentsDue of the loaded client), so that requests that interleave
\* can store counters no serial execution stores.
C13_WritesFromEarlierRead ==
  [][\A i \in Slots :
       /\ (reqs[i].op = "workPayment" /\ reqs[i].pc = "clientUpdate" /\ reqs'[i].pc = "done") =>
            /\ clients'[reqs[i].id].totalPaymentsDue = reqs[i].totalDue
            /\ clients'[reqs[i].id].receivedPayments = reqs[i].totalReceived
            /\ clients'[reqs[i].id].pendingPayments =
                 Max(0, reqs[i].totalDue - reqs[i].totalReceived)
       /\ (reqs[i].op = "clientPayment" /\ reqs[i].pc = "save" /\ reqs'[i].pc = "done") =>
            clients'[reqs[i].id].pendingPayments \in
              {Max(0, reqs[i].client.totalPaymentsDue - reqs[i].receivedAmount),
               clients[reqs[i].id].pendingPayments}]_vars

\* two work payments on two orders of one client, both answered 200: the
\* stored receivedPayments is the sum one of them read, not the sum over the
\* stored orders that either serial order of the two requests ends with
C13_Witness ==
  /\ \A i \in Slots : Answered(i, "workPayment") /\ reqs[i].res = 200 /\ reqs[i].id = 1
  /\ reqs[1].workId # reqs[2].workId
  /\ reqs[1].workType = "order" /\ reqs[2].workType = "order"
  /\ ClientReceived(1) = 10
  /\ clients[1].receivedPayments = 5
  /\ clients[1].pendingPayments = 5

\* C14: a payment request whose amount is out of range (below 0 or above
\* the order's or project's totalAmount; for the client payment, below 0 or
\* above totalPaymentsDue) is answered 400 and changes no document, and
\* 0 <= receivedPayment <= totalAmount holds for every order.
C14_OutOfRangeRejected ==
  /\ \A id \in DOMAIN orders :
       0 <= orders[id].receivedPayment /\ orders[id].receivedPayment <= orders[id].totalAmount
  /\ \A i \in Slots :
       /\ (/\ Answered(i, "payment") /\ reqs[i].id \in DOMAIN reqs[i].snap.orders
           /\ \/ reqs[i].receivedPayment < 0
              \/ reqs[i].receivedPayment > reqs[i].snap.orders[reqs[i].id].totalAmount) =>
            reqs[i].res = 400 /\ orders = reqs[i].snap.orders
       /\ (/\ Answered(i, "workPayment")
           /\ reqs[i].workId \in DOMAIN (IF reqs[i].workType = "order"
                                         THEN reqs[i].snap.orders ELSE reqs[i].snap.projects)
           /\ \/ reqs[i].amount < 0
              \/ reqs[i].amount > (IF reqs[i].workType = "order"
                                   THEN reqs[i].snap.orders[reqs[i].workId].totalAmount
                                   ELSE reqs[i].snap.projects[reqs[i].workId].totalAmount)) =>
            /\ reqs[i].res = 400
            /\ orders = reqs[i].snap.orders /\ projects = reqs[i].snap.projects
            /\ clients = reqs[i].snap.clients
       /\ (/\ Answered(i, "clientPayment")
           /\ \/ reqs[i].receivedAmount < 0
              \/ reqs[i].receivedAmount > reqs[i].snap.clients[reqs[i].id].totalPaymentsDue) =>
            reqs[i].res = 400 /\ clients = reqs[i].snap.clients

Unchanged(r) ==
  /\ orders = r.snap.orders /\ salaries = r.snap.salaries /\ users = r.snap.users
  /\ clients = r.snap.clients /\ projects = r.snap.projects

Assignees(order) == {At(order, p).who : p \in Positions(order)}

\* C15: a request naming an order, client, work item or assignee that is
\* not stored is answered 404 and changes no document.
C15_AbsentReferenceRejected ==
  \A i \in Slots :
    LET r == reqs[i]
    IN /\ (/\ Answered(i, "create")
           /\ \/ r.in.clientId \notin DOMAIN r.snap.clients
              \/ ~(Assignees(r.order) \subseteq DOMAIN r.snap.users)) =>
            r.res = 404 /\ Unchanged(r)
       /\ (/\ r.op \in {"status", "payment", "delete"} /\ r.pc = "done"
           /\ r.id \notin DOMAIN r.snap.orders) =>
            r.res = 404 /\ Unchanged(r)
       /\ (/\ r.op \in {"clientPayment", "clientDelete"} /\ r.pc = "done"
           /\ r.id \notin DOMAIN r.snap.clients) =>
            r.res = 404 /\ Unchanged(r)
       /\ (/\ Answered(i, "workPayment")
           /\ \/ r.id \notin DOMAIN r.snap.clients
              \/ r.workId \notin DOMAIN (IF r.workType = "order"
                                         THEN r.snap.orders ELSE r.snap.projects)) =>
            r.res = 404 /\ Unchanged(r)

\* C16: paymentStatus is a function of (totalPaymentsDue, receivedPayments):
\* whenever no request is in the middle of its writes, two clients with the
\* same pair have the same status.
C16_StatusIsFunctionOfPair ==
  Quiescent =>
    \A c, d \in DOMAIN clients :
      (/\ clients[c].totalPaymentsDue = clients[d].totalPaymentsDue
       /\ clients[c].receivedPayments = clients[d].receivedPayments) =>
        clients[c].paymentStatus = clients[d].paymentStatus

\* C17: every stored editing project has commissionAmount =
\* round(totalAmount * commissionPercentage / 100) and remainingPayment =
\* totalAmount - receivedPayment.
C17_ProjectDerivedFields ==
  \A p \in DOMAIN projects :
    /\ projects[p].commissionAmount =
         RoundPercent(projects[p].totalAmount * projects[p].commissionPercentage)
    /\ projects[p].remainingPayment = projects[p].totalAmount - projects[p].receivedPayment

\* C18: every stored order has remainingPayment = totalAmount -
\* receivedPayment, in every state, also while payment writes on the same
\* order interleave.
C18_OrderRemainingIsTotalMinusReceived ==
  \A id \in DOMAIN orders :
    orders[id].remainingPayment = orders[id].totalAmount - orders[id].receivedPayment

\* an order payment update that loaded the order before, and saved it
\* after, a work payment on the same order wrote it
C18_Witness ==
  \E i, j \in Slots :
    /\ Answered(i, "payment") /\ reqs[i].res = 200
    /\ Answered(j, "workPayment") /\ reqs[j].res = 200
    /\ reqs[j].workType = "order" /\ reqs[j].workId = reqs[i].id /\ reqs[j].id = 1
    /\ reqs[i].order.receivedPayment = 0
    /\ orders[reqs[i].id].receivedPayment = 2
    /\ clients[1].receivedPayments = 5

\* C19: an answered order payment update has changed nothing but that
\* order's receivedPayment and remainingPayment: clients, salary entries,
\* users, projects, the other orders and the order's other fields are as
\* they were when the request arrived.
C19_PaymentUpdateFrame ==
  \A i \in Slots :
    (Answered(i, "payment") /\ reqs[i].res = 200) =>
      LET r == reqs[i]
          before == r.snap.orders[r.id]
      IN /\ clients = r.snap.clients /\ salaries = r.snap.salaries
         /\ users = r.snap.users /\ projects = r.snap.projects
         /\ DOMAIN orders = DOMAIN r.snap.orders
         /\ \A id \in DOMAIN orders : id # r.id => orders[id] = r.snap.orders[id]
         /\ orders[r.id] =
              [before EXCEPT !.receivedPayment = r.receivedPayment,
                             !.remainingPayment = before.totalAmount - r.receivedPayment]

\* a payment of 2 recorded on a completed order with a paid salary entry,
\* whose client has 5 pending and another order
C19_Witness ==
  \E i \in Slots :
    /\ Answered(i, "payment") /\ reqs[i].res = 200
    /\ reqs[i].snap.orders[reqs[i].id].receivedPayment = 0
    /\ orders[reqs[i].id].receivedPayment = 2
    /\ orders[reqs[i].id].status = "completed"
    /\ \E s \in salaries : s.order = reqs[i].id /\ s.isPaid
    /\ Cardinality(DOMAIN orders) = 2
    /\ clients[1].pendingPayments = 10

\* C20: a completion request for an order that is already completed
\* performs no completion effect: the order keeps the completionDate of the
\* first completion, and no salary entry, user counter or notification
\* changes.
C20_CompletionGuarded ==
  \A i \in Slots :
    (/\ Answered(i, "status") /\ reqs[i].status = "completed"
     /\ reqs[i].id \in DOMAIN reqs[i].snap.orders
     /\ reqs[i].snap.orders[reqs[i].id].status = "completed") =>
      /\ orders[reqs[i].id].completionDate = reqs[i].snap.orders[reqs[i].id].completionDate
      /\ salaries = reqs[i].snap.salaries
      /\ users = reqs[i].snap.users

\* C21: once every order that was created has been deleted (requests served
\* one at a time, whatever payment updates and status changes came in
\* between), the client's lifetimeOrders, totalPaymentsDue and
\* pendingPayments and every user's totalEarnings, paidSalary and
\* remainingSalary are back at their values before the creates (0).
C21_DeleteReversesFootprint ==
  (Quiescent /\ DOMAIN orders = {}) =>
    /\ \A c \in DOMAIN clients :
         /\ clients[c].lifetimeOrders = 0
         /\ clients[c].totalPaymentsDue = 0
         /\ clients[c].pendingPayments = 0
    /\ \A u \in DOMAIN users :
         /\ users[u].totalEarnings = 0
         /\ users[u].paidSalary = 0
         /\ users[u].remainingSalary = 0

\* C22: with requests served one at a time and no failing step, between
\* requests each user's totalEarnings is the sum of the amounts of the
\* user's Salary entries, paidSalary the sum over the paid ones and
\* remainingSalary the sum over the unpaid ones.
C22_CountersMatchLedger ==
  Quiescent =>
    \A u \in DOMAIN users :
      /\ users[u].totalEarnings = SumAmounts({s \in salaries : s.employee = u})
      /\ users[u].paidSalary = SumAmounts({s \in salaries : s.employee = u /\ s.isPaid})
      /\ users[u].remainingSalary = SumAmounts({s \in salaries : s.employee = u /\ ~s.isPaid})

DashRoutes == {"stats", "alerts", "statsById", "alertsById"}
AssigneeAnswered(i) ==
  reqs[i].op \in DashRoutes /\ reqs[i].pc = "done" /\ reqs[i].q.userRole # "owner"
Caller(r) == r.q.userId.of
OwnOrders(u) == {id \in DOMAIN orders : u \in Assignees(orders[id])}
CountOf(alerts, kind) ==
  IF \E j \in 1..Len(alerts) : alerts[j].kind = kind
  THEN (CHOOSE a \in {alerts[j] : j \in 1..Len(alerts)} : a.kind = kind).count
  ELSE 0

OtherForm(q) ==
  [q EXCEPT !.userId.form = IF q.userId.form = "uid" THEN "objectId" ELSE "uid"]
ReplyTo(route, q) ==
  CASE route = "stats" -> Stats(q)
    [] route = "alerts" -> Alerts(q)
    [] route = "statsById" -> StatsById(q)
    [] route = "alertsById" -> AlertsById(q)

\* C24: the answer to an assignee's dashboard request (stats or alerts, of
\* either router) that names a stored user by one form of userId, the
\* native _id or the identity provider's UID, is the answer the same route
\* gives at that moment to the request naming the user by the other form.
C24_EitherFormSameAnswer ==
  \A i \in Slots :
    (/\ AssigneeAnswered(i)
     /\ Caller(reqs[i]) \in DOMAIN users
     /\ reqs[i].today = now) =>
      reqs[i].reply = ReplyTo(reqs[i].op, OtherForm(reqs[i].q))

\* C25: in every reachable state, also while an order's delete runs
\* interleaved with its create cascade or its completion cascade, the
\* relatedOrder of every Salary entry is the id of a stored order.
C25_NoSalaryOutlivesOrder == \A s \in salaries : s.order \in DOMAIN orders

\* C26: when a store call of an order delete has thrown (the delete answered
\* 500 and the order stayed) and every order has since been deleted by a
\* delete that succeeded, each assignee's totalEarnings and remainingSalary
\* and the client's lifetimeOrders, totalPaymentsDue and pendingPayments
\* have been decremented once for each order: with no payment or status
\* change in between they are back at their values before the creates (0).
C26_RetriedDeleteDecrementsOnce ==
  (Quiescent /\ faults > 0 /\ nextOrderId > 1 /\ DOMAIN orders = {}) =>
    /\ \A u \in DOMAIN users :
         users[u].totalEarnings = 0 /\ users[u].remainingSalary = 0
    /\ \A c \in DOMAIN clients :
         /\ clients[c].lifetimeOrders = 0
         /\ clients[c].totalPaymentsDue = 0
         /\ clients[c].pendingPayments = 0

\* C27: with status changes to 'completed' in flight together (also two for
\* the same order) and no delete, every Salary entry is paid at most once:
\* a user's paidSalary never exceeds the sum of the user's entries marked
\* paid and the user holds no more payment notifications than paid entries.
C27_EachEntryPaidOnce ==
  \A u \in DOMAIN users :
    LET paid == {s \in salaries : s.employee = u /\ s.isPaid}
    IN /\ users[u].paidSalary <= SumAmounts(paid)
       /\ Len(users[u].notifications) <= Cardinality(paid)

\* C28: every item of an answered work-history response reports
\* remainingPayment = totalAmount - receivedPayment and
\* isPaid = (receivedPayment >= totalAmount); hence an item with isPaid
\* true and totalAmount > 0 reports remainingPayment 0.
C28_WorkItemConsistent ==
  \A i \in Slots :
    Answered(i, "workHistory") =>
      \A j \in 1..Len(reqs[i].workHistory) :
        LET w == reqs[i].workHistory[j]
        IN /\ w.remainingPayment = w.totalAmount - w.receivedPayment
           /\ w.isPaid = (w.receivedPayment >= w.totalAmount)
           /\ (w.isPaid /\ w.totalAmount > 0) => w.remainingPayment = 0

\* C29: a request whose userRole is not 'owner' is never answered with a
\* client record by GET /clients, and is never answered by GET /orders with
\* an order that lacks the caller among its workers and transporters,
\* whichever of shopName and userId the query carries or leaves out.
C29_NonOwnerListsFiltered ==
  \A i \in Slots :
    /\ (Answered(i, "clients") /\ reqs[i].q.userRole # "owner") => reqs[i].reply.data = <<>>
    /\ (Answered(i, "orders") /\ reqs[i].q.userRole # "owner") =>
         \A j \in 1..Len(reqs[i].reply.data) :
           Caller(reqs[i]) \in Assignees(orders[reqs[i].reply.data[j]])

Arrives(i) == ~Busy(i) /\ Busy(i)'

\* the flag agrees with the last connect outcome or connection event: true
\* after a resolved connect or 'reconnected', false at start and after a
\* rejected connect, 'error' or 'disconnected'
C30_FlagFollowsEvents ==
  db.isDbConnected = (db.last \in {"connected", "reconnected"})

\* until a connect has resolved, a connect is pending or a retry is scheduled
C30_RetryScheduled == ~db.listening => (db.connecting \/ db.retry)

\* a request to a gated route that arrives while the flag is false is
\* answered 503 DB_UNAVAILABLE at once and the store stays as it is
C30_GateStep ==
  \A i \in Slots :
    (Arrives(i) /\ ~db.isDbConnected) =>
      /\ reqs'[i].res = 503 /\ reqs'[i].code = "DB_UNAVAILABLE" /\ reqs'[i].pc = "done"
      /\ store' = store

\* C30: isDbConnected is false at start, true exactly after a successful
\* connect or a 'reconnected' event and false after every failed connect,
\* 'error' or 'disconnected' event; while it is false every request to a
\* gated route is answered 503 DB_UNAVAILABLE without its handler running;
\* after a failed first connect a retry stays scheduled, and when
\* connection attempts eventually succeed the flag eventually becomes true.
C30_DbGate ==
  /\ [](C30_FlagFollowsEvents /\ C30_RetryScheduled)
  /\ [][C30_GateStep]_vars
  /\ (~db.listening ~> db.isDbConnected)

C30_Witness ==
  /\ ~db.isDbConnected /\ db.last = "failed" /\ db.retry
  /\ \E i \in Slots : Answered(i, "unavailable") /\ reqs[i].res = 503
====
